---- MODULE Spec2Model ----
(***************************************************************************)
(* CapLang: the tree-walking interpreter of src/src/interpreter.py as an   *)
(* abstract machine over the syntax trees of src/src/parser.py.            *)
(*                                                                         *)
(* Text (string values, identifiers, printed lines, messages) is a         *)
(* sequence of one-character strings, so that conversions between text and *)
(* numbers are computed character by character.                            *)
(***************************************************************************)
EXTENDS Integers, Sequences, FiniteSets, TLC

(***************************************************************************)
(* Bounds of the model.                                                    *)
(***************************************************************************)
\* Python's recursion limit, counted in nested closure calls and module loads.
MaxDepth == 4

(***************************************************************************)
(* Runtime values.  A number n/d is kept as a reduced fraction; "int" is a *)
(* Python int, "float" a Python float.  "fun" is a FunctionCallable (n its *)
(* index in closures), "ns" a SimpleNamespace (n its index in namespaces), *)
(* "host" a Python object of the host runtime (n its index in HostObjects).*)
(***************************************************************************)
NilV == [t |-> "nil", n |-> 0, d |-> 1, s |-> <<>>]
BoolV(b) == [t |-> "bool", n |-> IF b THEN 1 ELSE 0, d |-> 1, s |-> <<>>]
IntV(n) == [t |-> "int", n |-> n, d |-> 1, s |-> <<>>]
StrV(s) == [t |-> "str", n |-> 0, d |-> 1, s |-> s]
FunV(id) == [t |-> "fun", n |-> id, d |-> 1, s |-> <<>>]
NsV(id) == [t |-> "ns", n |-> id, d |-> 1, s |-> <<>>]
HostV(id) == [t |-> "host", n |-> id, d |-> 1, s |-> <<>>]

Abs(n) == IF n < 0 THEN -n ELSE n

RECURSIVE Gcd(_, _)
Gcd(a, b) == IF b = 0 THEN a ELSE Gcd(b, a % b)

\* The float n/d, reduced, with a positive denominator; the floats that are
\* no number have the denominator 0: inf is 1/0, -inf is -1/0, nan is 0/0.
FloatV(n, d) ==
  IF d = 0
  THEN [t |-> "float", n |-> IF n > 0 THEN 1 ELSE IF n < 0 THEN -1 ELSE 0, d |-> 0,
        s |-> <<>>]
  ELSE LET g == Gcd(Abs(n), Abs(d))
           sg == IF d < 0 THEN -1 ELSE 1
       IN [t |-> "float", n |-> sg * (n \div g), d |-> sg * (d \div g), s |-> <<>>]

IsNaN(v) == v.t = "float" /\ v.d = 0 /\ v.n = 0

(***************************************************************************)
(* Python's str() of a value, as print and str(e) use it.                  *)
(***************************************************************************)
Digit(i) == <<"0", "1", "2", "3", "4", "5", "6", "7", "8", "9">>[i + 1]

RECURSIVE NatStr(_)
NatStr(n) == IF n < 10 THEN <<Digit(n)>> ELSE NatStr(n \div 10) \o <<Digit(n % 10)>>

\* The digits of r/d after the decimal point, r < d, at most k of them.
RECURSIVE FracStr(_, _, _)
FracStr(r, d, k) ==
  IF r = 0 \/ k = 0 THEN <<>>
  ELSE <<Digit((10 * r) \div d)>> \o FracStr((10 * r) % d, d, k - 1)

FloatStr(n, d) ==
  IF d = 0 THEN (IF n = 0 THEN <<"n","a","n">> ELSE IF n > 0 THEN <<"i","n","f">> ELSE <<"-","i","n","f">>)
  ELSE
  (IF n < 0 THEN <<"-">> ELSE <<>>) \o NatStr(Abs(n) \div d) \o <<".">>
    \o (IF Abs(n) % d = 0 THEN <<"0">> ELSE FracStr(Abs(n) % d, d, 17))

Str(v) ==
  CASE v.t = "nil" -> <<"N", "o", "n", "e">>
    [] v.t = "bool" -> IF v.n = 1 THEN <<"T", "r", "u", "e">>
                       ELSE <<"F", "a", "l", "s", "e">>
    [] v.t = "int" -> (IF v.n < 0 THEN <<"-">> ELSE <<>>) \o NatStr(Abs(v.n))
    [] v.t = "float" -> FloatStr(v.n, v.d)
    [] v.t = "str" -> v.s
    [] OTHER -> <<"<", "o", "b", "j", "e", "c", "t", ">">>

(***************************************************************************)
(* Environment: values, declared types, enclosing (0 is None).  The heap   *)
(* is the sequence of every Environment created so far.                    *)
(***************************************************************************)
Environment(enclosing) == [values |-> <<>>, types |-> <<>>, enclosing |-> enclosing]

\* define as it would be if it bound the name in the outermost scope
define_global(h, e, name, value) == [h EXCEPT ![1].values = (name :> value) @@ @]

define(h, e, name, value) == [h EXCEPT ![e].values = (name :> value) @@ @]

RECURSIVE get(_, _, _)
get(h, e, name) ==
  IF name \in DOMAIN h[e].values THEN [found |-> TRUE, v |-> h[e].values[name]]
  ELSE IF h[e].enclosing # 0 THEN get(h, h[e].enclosing, name)
  ELSE [found |-> FALSE, v |-> NilV]

\* get_type as it would be if the type were looked up only in the scope that
\* holds the value
RECURSIVE get_type_of_binding(_, _, _)
get_type_of_binding(h, e, name) ==
  IF name \in DOMAIN h[e].values
  THEN IF name \in DOMAIN h[e].types THEN [found |-> TRUE, vtype |-> h[e].types[name]]
       ELSE [found |-> FALSE, vtype |-> <<>>]
  ELSE IF h[e].enclosing # 0 THEN get_type_of_binding(h, h[e].enclosing, name)
  ELSE [found |-> FALSE, vtype |-> <<>>]

RECURSIVE get_type(_, _, _)
get_type(h, e, name) ==
  IF name \in DOMAIN h[e].types THEN [found |-> TRUE, vtype |-> h[e].types[name]]
  ELSE IF h[e].enclosing # 0 THEN get_type(h, h[e].enclosing, name)
  ELSE [found |-> FALSE, vtype |-> <<>>]

\* assign as it would be if it looked in the current scope only
assign_local(h, e, name, value) ==
  IF name \in DOMAIN h[e].values
  THEN [found |-> TRUE, heap |-> [h EXCEPT ![e].values = (name :> value) @@ @]]
  ELSE [found |-> FALSE, heap |-> h]

\* assign as it would be if an undefined name became a global
RECURSIVE assign_global(_, _, _, _)
assign_global(h, e, name, value) ==
  IF name \in DOMAIN h[e].values \/ h[e].enclosing = 0
  THEN [found |-> TRUE, heap |-> [h EXCEPT ![e].values = (name :> value) @@ @]]
  ELSE assign_global(h, h[e].enclosing, name, value)

RECURSIVE assign(_, _, _, _)
assign(h, e, name, value) ==
  IF name \in DOMAIN h[e].values
  THEN [found |-> TRUE, heap |-> [h EXCEPT ![e].values = (name :> value) @@ @]]
  ELSE IF h[e].enclosing # 0 THEN assign(h, h[e].enclosing, name, value)
  ELSE [found |-> FALSE, heap |-> h]

(***************************************************************************)
(* Text helpers: Python's str.strip, str.lower and the literal grammars of *)
(* int() and float().  The decimal forms are covered: an optional sign,    *)
(* digits, an optional fraction.  Exponents, inf, nan and digit            *)
(* underscores are not in the model's strings.                             *)
(***************************************************************************)
IsSpace(c) == c \in {" ", "\t", "\n", "\r"}

IsDigit(c) == c \in {"0", "1", "2", "3", "4", "5", "6", "7", "8", "9"}

DigitVal(c) == CHOOSE i \in 0..9 : Digit(i) = c

RECURSIVE LStrip(_)
LStrip(s) == IF s # <<>> /\ IsSpace(Head(s)) THEN LStrip(Tail(s)) ELSE s

RECURSIVE RStrip(_)
RStrip(s) ==
  IF s # <<>> /\ IsSpace(s[Len(s)]) THEN RStrip(SubSeq(s, 1, Len(s) - 1)) ELSE s

Strip(s) == RStrip(LStrip(s))

LowerCh(c) ==
  LET up == <<"A", "B", "C", "D", "E", "F", "G", "H", "I", "J", "K", "L", "M",
              "N", "O", "P", "Q", "R", "S", "T", "U", "V", "W", "X", "Y", "Z">>
      lo == <<"a", "b", "c", "d", "e", "f", "g", "h", "i", "j", "k", "l", "m",
              "n", "o", "p", "q", "r", "s", "t", "u", "v", "w", "x", "y", "z">>
  IN IF \E i \in 1..26 : up[i] = c THEN lo[CHOOSE i \in 1..26 : up[i] = c] ELSE c

Lower(s) == [i \in 1..Len(s) |-> LowerCh(s[i])]

AllDigits(s) == \A i \in 1..Len(s) : IsDigit(s[i])

RECURSIVE DigitsVal(_)
DigitsVal(s) ==
  IF s = <<>> THEN 0 ELSE 10 * DigitsVal(SubSeq(s, 1, Len(s) - 1)) + DigitVal(s[Len(s)])

RECURSIVE Pow10(_)
Pow10(k) == IF k = 0 THEN 1 ELSE 10 * Pow10(k - 1)

\* The text after an optional sign, and the sign.
Unsigned(s) == IF s # <<>> /\ Head(s) \in {"+", "-"} THEN Tail(s) ELSE s

SignOf(s) == IF s # <<>> /\ Head(s) = "-" THEN -1 ELSE 1

\* int(text): [ws] [sign] digits [ws].
ParseInt(s) ==
  LET u == Unsigned(Strip(s))
  IN IF u # <<>> /\ AllDigits(u)
     THEN [ok |-> TRUE, n |-> SignOf(Strip(s)) * DigitsVal(u)]
     ELSE [ok |-> FALSE, n |-> 0]

\* float(text): [ws] [sign] (digits [. [digits]] | . digits | nan | inf |
\* infinity) [ws], the words in either case.
ParseFloat(s) ==
  LET u == Unsigned(Strip(s))
      dots == {i \in 1..Len(u) : u[i] = "."}
      p == IF dots = {} THEN Len(u) + 1 ELSE CHOOSE i \in dots : \A j \in dots : i <= j
      ip == SubSeq(u, 1, p - 1)
      fp == SubSeq(u, p + 1, Len(u))
  IN IF Lower(u) = <<"n","a","n">> THEN [ok |-> TRUE, n |-> 0, d |-> 0]
     ELSE IF Lower(u) \in {<<"i","n","f">>, <<"i","n","f","i","n","i","t","y">>}
     THEN [ok |-> TRUE, n |-> SignOf(Strip(s)), d |-> 0]
     ELSE IF Cardinality(dots) <= 1 /\ AllDigits(ip) /\ AllDigits(fp) /\ Len(ip) + Len(fp) > 0
     THEN [ok |-> TRUE, n |-> SignOf(Strip(s)) * (DigitsVal(ip) * Pow10(Len(fp)) + DigitsVal(fp)),
           d |-> Pow10(Len(fp))]
     ELSE [ok |-> FALSE, n |-> 0, d |-> 1]

\* type(v).__name__ as Python's conversion errors print it.
TypeName(v) ==
  CASE v.t = "nil" -> <<"N","o","n","e","T","y","p","e">>
    [] v.t = "bool" -> <<"b","o","o","l">>
    [] v.t = "int" -> <<"i","n","t">>
    [] v.t = "float" -> <<"f","l","o","a","t">>
    [] v.t = "str" -> <<"s","t","r">>
    [] v.t = "fun" -> <<"F","u","n","c","t","i","o","n","C","a","l","l","a","b","l","e">>
    [] v.t = "ns" -> <<"t","y","p","e","s",".","S","i","m","p","l","e","N","a","m","e","s","p","a","c","e">>
    [] OTHER -> <<"b","u","i","l","t","i","n","_","f","u","n","c","t","i","o","n","_","o","r","_","m","e","t","h","o","d">>

\* repr of a str, without the quotes: a backslash, a line break and the
\* quote q are escaped.
RECURSIVE Escaped(_, _)
Escaped(s, q) ==
  IF s = <<>> THEN <<>>
  ELSE (CASE Head(s) = "\\" -> <<"\\", "\\">>
          [] Head(s) = "\n" -> <<"\\", "n">>
          [] Head(s) = q -> <<"\\", q>>
          [] OTHER -> <<Head(s)>>) \o Escaped(Tail(s), q)

\* repr(v): a string in single quotes (in double quotes when it holds a
\* single quote and no double quote), anything else as str(v).
Repr(v) ==
  IF v.t # "str" THEN Str(v)
  ELSE IF (\E i \in 1..Len(v.s) : v.s[i] = "'") /\ (\A i \in 1..Len(v.s) : v.s[i] # "\"")
  THEN <<"\"">> \o Escaped(v.s, "\"") \o <<"\"">>
  ELSE <<"'">> \o Escaped(v.s, "'") \o <<"'">>

IsNumber(v) == v.t \in {"bool", "int", "float"}

\* Python's float(v): a result, or the message of the TypeError or ValueError.
ToFloat(v) ==
  IF IsNumber(v) THEN [ok |-> TRUE, v |-> FloatV(v.n, v.d), msg |-> <<>>]
  ELSE IF v.t = "str"
  THEN LET p == ParseFloat(v.s)
       IN IF p.ok THEN [ok |-> TRUE, v |-> FloatV(p.n, p.d), msg |-> <<>>]
          ELSE [ok |-> FALSE, v |-> NilV,
                msg |-> <<"c","o","u","l","d"," ","n","o","t"," ","c","o","n","v","e","r","t"," ","s","t","r","i","n","g"," ","t","o"," ","f","l","o","a","t",":"," ">> \o Repr(v)]
  ELSE [ok |-> FALSE, v |-> NilV,
        msg |-> <<"f","l","o","a","t","(",")"," ","a","r","g","u","m","e","n","t"," ","m","u","s","t"," ","b","e"," ","a"," ","s","t","r","i","n","g"," ","o","r"," ","a"," ","r","e","a","l"," ","n","u","m","b","e","r",","," ","n","o","t"," ","'">>
                \o TypeName(v) \o <<"'">>]

\* Python's int(v): truncation toward zero for a float.
ToInt(v) ==
  IF v.t \in {"bool", "int"} THEN [ok |-> TRUE, v |-> IntV(v.n), msg |-> <<>>]
  ELSE IF v.t = "float" /\ v.d = 0
  THEN [ok |-> FALSE, v |-> NilV,
        msg |-> IF v.n = 0 THEN <<"c","a","n","n","o","t"," ","c","o","n","v","e","r","t"," ","f","l","o","a","t"," ","N","a","N"," ","t","o"," ","i","n","t","e","g","e","r">>
                ELSE <<"c","a","n","n","o","t"," ","c","o","n","v","e","r","t"," ","f","l","o","a","t"," ","i","n","f","i","n","i","t","y"," ","t","o"," ","i","n","t","e","g","e","r">>]
  ELSE IF v.t = "float"
  THEN [ok |-> TRUE, v |-> IntV((IF v.n < 0 THEN -1 ELSE 1) * (Abs(v.n) \div v.d)),
        msg |-> <<>>]
  ELSE IF v.t = "str"
  THEN LET p == ParseInt(v.s)
       IN IF p.ok THEN [ok |-> TRUE, v |-> IntV(p.n), msg |-> <<>>]
          ELSE [ok |-> FALSE, v |-> NilV,
                msg |-> <<"i","n","v","a","l","i","d"," ","l","i","t","e","r","a","l"," ","f","o","r"," ","i","n","t","(",")"," ","w","i","t","h"," ","b","a","s","e"," ","1","0",":"," ">> \o Repr(v)]
  ELSE [ok |-> FALSE, v |-> NilV,
        msg |-> <<"i","n","t","(",")"," ","a","r","g","u","m","e","n","t"," ","m","u","s","t"," ","b","e"," ","a"," ","s","t","r","i","n","g",","," ","a"," ","b","y","t","e","s","-","l","i","k","e"," ","o","b","j","e","c","t"," ","o","r"," ","a"," ","r","e","a","l"," ","n","u","m","b","e","r",","," ","n","o","t"," ","'">>
                \o TypeName(v) \o <<"'">>]

\* Python's bool(v).
PyBool(v) ==
  CASE v.t = "nil" -> FALSE
    [] IsNumber(v) -> v.n # 0 \/ v.d = 0
    [] v.t = "str" -> v.s # <<>>
    [] OTHER -> TRUE

\* is_truthy as it would be if it were Python's bool()
is_truthy_python(object) == PyBool(object)

is_truthy(object) ==
  IF object.t = "nil" THEN FALSE
  ELSE IF object.t = "bool" THEN object.n = 1
  ELSE TRUE

\* a == b of Python: numbers by value (nan equals nothing), text by characters, a namespace by its
\* attributes (nss is the table of namespaces), other objects by identity.
PyEq(a, b, nss) ==
  IF IsNumber(a) /\ IsNumber(b) THEN a.n = b.n /\ a.d = b.d /\ ~IsNaN(a)
  ELSE IF a.t # b.t THEN FALSE
  ELSE IF a.t = "str" THEN a.s = b.s
  ELSE IF a.t = "ns" THEN nss[a.n] = nss[b.n]
  ELSE a.n = b.n

is_equal(a, b, nss) ==
  IF a.t = "nil" /\ b.t = "nil" THEN TRUE
  ELSE IF a.t = "nil" THEN FALSE
  ELSE PyEq(a, b, nss)

\* coerce_value as it would be if it left every value as it is
coerce_nothing(value, vtype) == [ok |-> TRUE, v |-> value, msg |-> <<>>]

coerce_value(value, vtype) ==
  LET vt == Lower(vtype)
      i == ToInt(value)
      f == ToFloat(value)
      failed(e) == [ok |-> FALSE, v |-> NilV,
                    msg |-> <<"C","a","n","n","o","t"," ","c","o","e","r","c","e"," ","v","a","l","u","e"," ">> \o Repr(value) \o <<" ","t","o"," ","t","y","p","e"," ","'">>
                            \o vtype \o <<"'",":"," ">> \o e]
      done(v) == [ok |-> TRUE, v |-> v, msg |-> <<>>]
  IN IF vt = <<"i","n","t">>
     THEN IF i.ok THEN done(i.v)
          ELSE IF f.ok /\ ToInt(f.v).ok THEN done(ToInt(f.v).v)
          ELSE IF f.ok THEN done(f.v)
          ELSE failed(f.msg)
     ELSE IF vt = <<"f","l","o","a","t">> THEN (IF f.ok THEN done(f.v) ELSE failed(f.msg))
     ELSE IF vt \in {<<"s","t","r","i","n","g">>, <<"s","t","r">>} THEN done(StrV(Str(value)))
     ELSE IF vt = <<"b","o","o","l">>
     THEN IF value.t = "bool" THEN done(value)
          ELSE IF value.t = "str" /\ Lower(Strip(value.s)) \in {<<"t","r","u","e">>, <<"1">>, <<"y","e","s">>}
          THEN done(BoolV(TRUE))
          ELSE IF value.t = "str" /\ Lower(Strip(value.s)) \in {<<"f","a","l","s","e">>, <<"0">>, <<"n","o">>}
          THEN done(BoolV(FALSE))
          ELSE done(BoolV(PyBool(value)))
     ELSE done(value)

(***************************************************************************)
(* Tokens (lexer.py) and syntax trees (the node classes of parser.py).  A  *)
(* name or operator of a node is its token; an absent optional part is     *)
(* None.  TryStmt is the node interpreter.py executes for try/catch.       *)
(***************************************************************************)
None == [k |-> "None"]

Token(type, lexeme, literal, line) ==
  [type |-> type, lexeme |-> lexeme, literal |-> literal, line |-> line]

Literal(value) == [k |-> "Literal", value |-> value]
Grouping(expression) == [k |-> "Grouping", expression |-> expression]
Unary(operator, right) == [k |-> "Unary", operator |-> operator, right |-> right]
Binary(left, operator, right) ==
  [k |-> "Binary", left |-> left, operator |-> operator, right |-> right]
Variable(name) == [k |-> "Variable", name |-> name]
Assign(name, value) == [k |-> "Assign", name |-> name, value |-> value]
Get(object, name) == [k |-> "Get", object |-> object, name |-> name]
Call(callee, arguments) == [k |-> "Call", callee |-> callee, arguments |-> arguments]

ExpressionStmt(expression) == [k |-> "ExpressionStmt", expression |-> expression]
PrintStmt(expression) == [k |-> "PrintStmt", expression |-> expression]
FunctionStmt(name, params, body) ==
  [k |-> "FunctionStmt", name |-> name, params |-> params, body |-> body]
Return(value) == [k |-> "Return", value |-> value]
VarStmt(name, initializer, vtype) ==
  [k |-> "VarStmt", name |-> name, initializer |-> initializer, vtype |-> vtype]
ImportStmt(path) == [k |-> "ImportStmt", path |-> path]
BlockStmt(statements) == [k |-> "BlockStmt", statements |-> statements]
IfStmt(condition, then_branch, else_branch) ==
  [k |-> "IfStmt", condition |-> condition, then_branch |-> then_branch,
   else_branch |-> else_branch]
WhileStmt(condition, body) == [k |-> "WhileStmt", condition |-> condition, body |-> body]
\* A Python list held where None may stand instead (TryStmt.catch_block).
List(items) == [k |-> "list", items |-> items]

TryStmt(try_block, catch_param, catch_block) ==
  [k |-> "TryStmt", try_block |-> try_block, catch_param |-> catch_param,
   catch_block |-> catch_block]

(***************************************************************************)
(* Lexer (lexer.py): the text of a source file to its tokens.  A result is *)
(* [ok, tokens, msg]: the tokens, or the message of the Exception raised.  *)
(***************************************************************************)
IsAlpha(c) ==
  c \in {"a", "b", "c", "d", "e", "f", "g", "h", "i", "j", "k", "l", "m", "n", "o",
         "p", "q", "r", "s", "t", "u", "v", "w", "x", "y", "z", "A", "B", "C", "D",
         "E", "F", "G", "H", "I", "J", "K", "L", "M", "N", "O", "P", "Q", "R", "S",
         "T", "U", "V", "W", "X", "Y", "Z"}

IsIdentifierPart(c) == IsAlpha(c) \/ IsDigit(c) \/ c = "_"

keywords ==
  (<<"d","e","f">> :> "DEF") @@ (<<"c","l","a","s","s">> :> "CLASS") @@ (<<"i","f">> :> "IF")
    @@ (<<"e","l","s","e">> :> "ELSE") @@ (<<"t","r","u","e">> :> "TRUE") @@ (<<"f","a","l","s","e">> :> "FALSE")
    @@ (<<"n","i","l">> :> "NIL") @@ (<<"r","e","t","u","r","n">> :> "RETURN") @@ (<<"p","r","i","n","t">> :> "PRINT")
    @@ (<<"v","a","r">> :> "VAR") @@ (<<"f","o","r">> :> "FOR") @@ (<<"w","h","i","l","e">> :> "WHILE")
    @@ (<<"b","r","e","a","k">> :> "BREAK") @@ (<<"c","o","n","t","i","n","u","e">> :> "CONTINUE")
    @@ (<<"i","m","p","o","r","t">> :> "IMPORT")

\* The one-character tokens, and the operators an = can follow.
Delimiters ==
  ("(" :> "LEFT_PAREN") @@ (")" :> "RIGHT_PAREN") @@ ("{" :> "LEFT_BRACE")
    @@ ("}" :> "RIGHT_BRACE") @@ ("," :> "COMMA") @@ ("." :> "DOT")
    @@ (";" :> "SEMICOLON") @@ ("+" :> "PLUS") @@ ("-" :> "MINUS")
    @@ ("*" :> "STAR") @@ ("/" :> "SLASH")

Operators ==
  ("=" :> <<"EQUAL", "EQUAL_EQUAL">>) @@ ("!" :> <<"BANG", "BANG_EQUAL">>)
    @@ ("<" :> <<"LESS", "LESS_EQUAL">>) @@ (">" :> <<"GREATER", "GREATER_EQUAL">>)

\* Where the run of characters satisfying P that starts at i ends: the first
\* position from i on whose character fails P, or Len(source) + 1.
SpanEnd(source, i, P(_)) ==
  CHOOSE j \in i..(Len(source) + 1) :
    /\ j = Len(source) + 1 \/ ~P(source[j])
    /\ \A l \in i..(j - 1) : P(source[l])

NotQuote(c) == c # "\""

Newlines(source, from, to) == Cardinality({i \in from..to : source[i] = "\n"})

\* Lexer.number: digits, and a fraction if a digit follows the point
NumberEnd(source, start) ==
  LET e == SpanEnd(source, start, IsDigit)
  IN IF e + 1 <= Len(source) /\ source[e] = "." /\ IsDigit(source[e + 1])
     THEN SpanEnd(source, e + 1, IsDigit)
     ELSE e

\* the Lexer after a call of scan_token, or the message of its Exception
Scanned(current, line, tokens) ==
  [ok |-> TRUE, current |-> current, line |-> line, tokens |-> tokens, msg |-> <<>>]

\* scan_token as it would be if it consumed no character
scan_token_nothing(source, start, line, tokens) == Scanned(start, line, tokens)

\* scan_token, called at position start with the line counter at line
scan_token(source, start, line, tokens) ==
  LET c == source[start]
      text(e) == SubSeq(source, start, e - 1)
      add(type, literal, e, ln) ==
        Scanned(e, ln, Append(tokens, Token(type, text(e), literal, ln)))
  IN IF IsSpace(c)
     THEN Scanned(start + 1, IF c = "\n" THEN line + 1 ELSE line, tokens)
     ELSE IF IsAlpha(c) \/ c = "_"
     THEN LET e == SpanEnd(source, start + 1, IsIdentifierPart)
          IN add(IF text(e) \in DOMAIN keywords THEN keywords[text(e)]
                 ELSE "IDENTIFIER", NilV, e, line)
     ELSE IF IsDigit(c)
     THEN LET e == NumberEnd(source, start)
          IN add("NUMBER",
                 CHOOSE v \in {FloatV(f.n, f.d) : f \in {ParseFloat(t) : t \in {text(e)}}} : TRUE,
                 e, line)
     ELSE IF c = "\""
     THEN LET q == SpanEnd(source, start + 1, NotQuote)
              ln == line + Newlines(source, start + 1, q - 1)
          IN IF q > Len(source)
             THEN [ok |-> FALSE, current |-> q, line |-> ln, tokens |-> <<>>,
                   msg |-> <<"U","n","t","e","r","m","i","n","a","t","e","d"," ","s","t","r","i","n","g"," ","a","t"," ","l","i","n","e"," ">> \o NatStr(ln)]
             ELSE add("STRING", StrV(SubSeq(source, start + 1, q - 1)), q + 1, ln)
     ELSE IF c \in DOMAIN Delimiters
     THEN add(Delimiters[c], NilV, start + 1, line)
     ELSE IF c \in DOMAIN Operators
     THEN IF start + 1 <= Len(source) /\ source[start + 1] = "="
          THEN add(Operators[c][2], NilV, start + 2, line)
          ELSE add(Operators[c][1], NilV, start + 1, line)
     ELSE [ok |-> FALSE, current |-> start + 1, line |-> line, tokens |-> <<>>,
           msg |-> <<"U","n","e","x","p","e","c","t","e","d"," ","c","h","a","r","a","c","t","e","r"," ","a","t"," ","l","i","n","e"," ">> \o NatStr(line)]

\* scan_tokens, from position start: scan_token until the end of the text,
\* then the EOF token
RECURSIVE scan_tokens(_, _, _, _)
ScanNext(source, r) ==
  IF r.ok THEN scan_tokens(source, r.current, r.line, r.tokens)
  ELSE [ok |-> FALSE, tokens |-> <<>>, msg |-> r.msg]

scan_tokens(source, start, line, tokens) ==
  IF start > Len(source)
  THEN [ok |-> TRUE, tokens |-> Append(tokens, Token("EOF", <<>>, NilV, line)), msg |-> <<>>]
  ELSE ScanNext(source, scan_token(source, start, line, tokens))

Lexer(source) == scan_tokens(source, 1, 1, <<>>)

(***************************************************************************)
(* Parser (parser.py): recursive descent over the tokens.  A result is     *)
(* [ok, node, current, msg]: the node parsed and the position after it, or *)
(* the message of the Exception raised.                                    *)
(***************************************************************************)
Parsed(node, current) == [ok |-> TRUE, node |-> node, current |-> current, msg |-> <<>>]

ParseError(tokens, current, message) ==
  [ok |-> FALSE, node |-> None, current |-> current,
   msg |-> message \o <<" ","a","t"," ","l","i","n","e"," ">> \o NatStr(tokens[current].line)]

is_at_end(tokens, current) == tokens[current].type = "EOF"

check(tokens, current, type) ==
  IF is_at_end(tokens, current) THEN FALSE ELSE tokens[current].type = type

\* the position after an optional token: if self.match(type): pass
match(tokens, current, type) ==
  IF check(tokens, current, type) THEN current + 1 ELSE current

consume(tokens, current, type, message) ==
  IF check(tokens, current, type) THEN Parsed(tokens[current], current + 1)
  ELSE ParseError(tokens, current, message)

\* the levels as they would be with term and factor exchanged
BinaryLevelsExchanged ==
  [equality |-> {"BANG_EQUAL", "EQUAL_EQUAL"},
   comparison |-> {"GREATER", "GREATER_EQUAL", "LESS", "LESS_EQUAL"},
   term |-> {"SLASH", "STAR"},
   factor |-> {"MINUS", "PLUS"}]

\* equality, comparison, term, factor: the operators each of them matches,
\* and the method that parses its operands
BinaryLevels ==
  [equality |-> {"BANG_EQUAL", "EQUAL_EQUAL"},
   comparison |-> {"GREATER", "GREATER_EQUAL", "LESS", "LESS_EQUAL"},
   term |-> {"MINUS", "PLUS"},
   factor |-> {"SLASH", "STAR"}]

Operand ==
  [equality |-> "comparison", comparison |-> "term", term |-> "factor", factor |-> "unary"]

(***************************************************************************)
(* Parser(method, tokens, current, arg): the method of the Parser over     *)
(* tokens, called with the position at current.  A statement method is     *)
(* called with current after its keyword.  A method with a loop runs the   *)
(* loop by calling itself with arg, what the loop has built so far; arg is *)
(* None when the method is entered.                                        *)
(***************************************************************************)
RECURSIVE Parser(_, _, _, _)
Parser(method, tokens, current, arg) ==
  CASE method = "parse" ->
         Parser("declarations", tokens, current, [statements |-> <<>>, braced |-> FALSE])
    [] method = "declarations" ->
         \* statements.append(self.declaration()) until the end of the tokens, and
         \* in a block or a function body until its closing brace as well
         IF is_at_end(tokens, current) \/ (arg.braced /\ check(tokens, current, "RIGHT_BRACE"))
         THEN Parsed(arg.statements, current)
         ELSE LET stmt == Parser("declaration", tokens, current, None)
              IN IF ~stmt.ok THEN stmt
                 ELSE Parser("declarations", tokens, stmt.current,
                             [arg EXCEPT !.statements = Append(@, stmt.node)])
    [] method = "declaration" ->
         IF check(tokens, current, "VAR")
         THEN Parser("var_declaration", tokens, current + 1, None)
         ELSE IF check(tokens, current, "DEF")
         THEN Parser("function_declaration", tokens, current + 1, None)
         ELSE IF check(tokens, current, "IMPORT")
         THEN Parser("import_declaration", tokens, current + 1, None)
         ELSE Parser("statement", tokens, current, None)
    [] method = "import_declaration" ->
         LET first == consume(tokens, current, "IDENTIFIER", <<"E","x","p","e","c","t"," ","m","o","d","u","l","e"," ","n","a","m","e"," ","i","n"," ","i","m","p","o","r","t",".">>)
         IN IF ~first.ok THEN first
            ELSE Parser("import_declaration:while", tokens, first.current, <<first.node>>)
    [] method = "import_declaration:while" ->
         \* parts.append(IDENTIFIER) while a '.' is next
         IF check(tokens, current, "DOT")
         THEN LET name == consume(tokens, current + 1, "IDENTIFIER",
                                  <<"E","x","p","e","c","t"," ","n","a","m","e"," ","a","f","t","e","r"," ","'",".","'"," ","i","n"," ","i","m","p","o","r","t",".">>)
              IN IF ~name.ok THEN name
                 ELSE Parser("import_declaration:while", tokens, name.current,
                             Append(arg, name.node))
         ELSE Parsed(ImportStmt(arg), match(tokens, current, "SEMICOLON"))
    [] method = "var_declaration" ->
         LET typed == check(tokens, current, "IDENTIFIER")
                        /\ check(tokens, current + 1, "IDENTIFIER")
             name == IF typed THEN Parsed(tokens[current + 1], current + 2)
                     ELSE consume(tokens, current, "IDENTIFIER", <<"E","x","p","e","c","t"," ","v","a","r","i","a","b","l","e"," ","n","a","m","e",".">>)
             vtype == IF typed THEN tokens[current] ELSE None
         IN IF ~name.ok THEN name
            ELSE IF check(tokens, name.current, "EQUAL")
            THEN LET initializer == Parser("expression", tokens, name.current + 1, None)
                 IN IF ~initializer.ok THEN initializer
                    ELSE Parsed(VarStmt(name.node, initializer.node, vtype),
                                match(tokens, initializer.current, "SEMICOLON"))
            ELSE Parsed(VarStmt(name.node, None, vtype),
                        match(tokens, name.current, "SEMICOLON"))
    [] method = "statement" ->
         IF check(tokens, current, "PRINT")
         THEN Parser("print_statement", tokens, current + 1, None)
         ELSE IF check(tokens, current, "RETURN")
         THEN Parser("return_statement", tokens, current + 1, None)
         ELSE IF check(tokens, current, "FOR")
         THEN Parser("for_statement", tokens, current + 1, None)
         ELSE IF check(tokens, current, "IF")
         THEN Parser("if_statement", tokens, current + 1, None)
         ELSE IF check(tokens, current, "WHILE")
         THEN Parser("while_statement", tokens, current + 1, None)
         ELSE IF check(tokens, current, "LEFT_BRACE")
         THEN LET statements == Parser("block", tokens, current + 1, None)
              IN IF ~statements.ok THEN statements
                 ELSE Parsed(BlockStmt(statements.node), statements.current)
         ELSE Parser("expression_statement", tokens, current, None)
    [] method = "print_statement" ->
         LET expr == Parser("expression", tokens, current, None)
         IN IF ~expr.ok THEN expr
            ELSE Parsed(PrintStmt(expr.node), match(tokens, expr.current, "SEMICOLON"))
    [] method = "expression_statement" ->
         LET expr == Parser("expression", tokens, current, None)
         IN IF ~expr.ok THEN expr
            ELSE Parsed(ExpressionStmt(expr.node), match(tokens, expr.current, "SEMICOLON"))
    [] method = "block" ->
         LET statements == Parser("declarations", tokens, current,
                                  [statements |-> <<>>, braced |-> TRUE])
         IN IF ~statements.ok THEN statements
            ELSE LET close == consume(tokens, statements.current, "RIGHT_BRACE",
                                      <<"E","x","p","e","c","t"," ","'","}","'"," ","a","f","t","e","r"," ","b","l","o","c","k",".">>)
                 IN IF ~close.ok THEN close ELSE Parsed(statements.node, close.current)
    [] method = "if_statement" ->
         LET open == consume(tokens, current, "LEFT_PAREN", <<"E","x","p","e","c","t"," ","'","(","'"," ","a","f","t","e","r"," ","'","i","f","'",".">>)
         IN IF ~open.ok THEN open
            ELSE LET condition == Parser("expression", tokens, open.current, None)
                 IN IF ~condition.ok THEN condition
                    ELSE Parser("if_statement:then", tokens, condition.current, condition.node)
    [] method = "if_statement:then" ->
         \* after the condition (arg): ')' then_branch [else else_branch]
         LET close == consume(tokens, current, "RIGHT_PAREN", <<"E","x","p","e","c","t"," ","'",")","'"," ","a","f","t","e","r"," ","i","f"," ","c","o","n","d","i","t","i","o","n",".">>)
         IN IF ~close.ok THEN close
            ELSE LET then_branch == Parser("statement", tokens, close.current, None)
                 IN IF ~then_branch.ok THEN then_branch
                    ELSE IF check(tokens, then_branch.current, "ELSE")
                    THEN LET else_branch ==
                               Parser("statement", tokens, then_branch.current + 1, None)
                         IN IF ~else_branch.ok THEN else_branch
                            ELSE Parsed(IfStmt(arg, then_branch.node, else_branch.node),
                                        else_branch.current)
                    ELSE Parsed(IfStmt(arg, then_branch.node, None), then_branch.current)
    [] method = "while_statement" ->
         LET open == consume(tokens, current, "LEFT_PAREN", <<"E","x","p","e","c","t"," ","'","(","'"," ","a","f","t","e","r"," ","'","w","h","i","l","e","'",".">>)
         IN IF ~open.ok THEN open
            ELSE LET condition == Parser("expression", tokens, open.current, None)
                 IN IF ~condition.ok THEN condition
                    ELSE LET close == consume(tokens, condition.current, "RIGHT_PAREN",
                                              <<"E","x","p","e","c","t"," ","'",")","'"," ","a","f","t","e","r"," ","c","o","n","d","i","t","i","o","n",".">>)
                         IN IF ~close.ok THEN close
                            ELSE LET body == Parser("statement", tokens, close.current, None)
                                 IN IF ~body.ok THEN body
                                    ELSE Parsed(WhileStmt(condition.node, body.node),
                                                body.current)
    [] method = "for_statement" ->
         LET open == consume(tokens, current, "LEFT_PAREN", <<"E","x","p","e","c","t"," ","'","(","'"," ","a","f","t","e","r"," ","'","f","o","r","'",".">>)
         IN IF ~open.ok THEN open
            ELSE LET initializer ==
                       IF check(tokens, open.current, "SEMICOLON")
                       THEN Parsed(None, open.current + 1)
                       ELSE IF check(tokens, open.current, "VAR")
                       THEN Parser("var_declaration", tokens, open.current + 1, None)
                       ELSE Parser("expression_statement", tokens, open.current, None)
                 IN IF ~initializer.ok THEN initializer
                    ELSE Parser("for_statement:condition", tokens, initializer.current,
                                [initializer |-> initializer.node])
    [] method = "for_statement:condition" ->
         LET condition == IF ~check(tokens, current, "SEMICOLON")
                          THEN Parser("expression", tokens, current, None)
                          ELSE Parsed(None, current)
         IN IF ~condition.ok THEN condition
            ELSE LET semicolon == consume(tokens, condition.current, "SEMICOLON",
                                          <<"E","x","p","e","c","t"," ","'",";","'"," ","a","f","t","e","r"," ","l","o","o","p"," ","c","o","n","d","i","t","i","o","n",".">>)
                 IN IF ~semicolon.ok THEN semicolon
                    ELSE Parser("for_statement:increment", tokens, semicolon.current,
                                [initializer |-> arg.initializer, condition |-> condition.node])
    [] method = "for_statement:increment" ->
         LET increment == IF ~check(tokens, current, "RIGHT_PAREN")
                          THEN Parser("expression", tokens, current, None)
                          ELSE Parsed(None, current)
         IN IF ~increment.ok THEN increment
            ELSE LET close == consume(tokens, increment.current, "RIGHT_PAREN",
                                      <<"E","x","p","e","c","t"," ","'",")","'"," ","a","f","t","e","r"," ","f","o","r"," ","c","l","a","u","s","e","s",".">>)
                 IN IF ~close.ok THEN close
                    ELSE LET body == Parser("statement", tokens, close.current, None)
                             stepped == IF increment.node # None
                                        THEN BlockStmt(<<body.node,
                                                         ExpressionStmt(increment.node)>>)
                                        ELSE body.node
                             loop == WhileStmt(IF arg.condition = None
                                               THEN Literal(BoolV(TRUE))
                                               ELSE arg.condition, stepped)
                         IN IF ~body.ok THEN body
                            ELSE Parsed(IF arg.initializer # None
                                        THEN BlockStmt(<<arg.initializer, loop>>)
                                        ELSE loop, body.current)
    [] method = "function_declaration" ->
         LET name == consume(tokens, current, "IDENTIFIER", <<"E","x","p","e","c","t"," ","f","u","n","c","t","i","o","n"," ","n","a","m","e",".">>)
         IN IF ~name.ok THEN name
            ELSE LET open == consume(tokens, name.current, "LEFT_PAREN",
                                     <<"E","x","p","e","c","t"," ","'","(","'"," ","a","f","t","e","r"," ","f","u","n","c","t","i","o","n"," ","n","a","m","e",".">>)
                 IN IF ~open.ok THEN open
                    ELSE IF check(tokens, open.current, "RIGHT_PAREN")
                    THEN Parser("function_declaration:body", tokens, open.current,
                                [name |-> name.node, params |-> <<>>])
                    ELSE Parser("function_declaration:params", tokens, open.current,
                                [name |-> name.node, params |-> <<>>])
    [] method = "function_declaration:params" ->
         \* params.append(IDENTIFIER) while a ',' follows
         LET name == consume(tokens, current, "IDENTIFIER", <<"E","x","p","e","c","t"," ","p","a","r","a","m","e","t","e","r"," ","n","a","m","e",".">>)
         IN IF ~name.ok THEN name
            ELSE IF check(tokens, name.current, "COMMA")
            THEN Parser("function_declaration:params", tokens, name.current + 1,
                        [arg EXCEPT !.params = Append(@, name.node)])
            ELSE Parser("function_declaration:body", tokens, name.current,
                        [arg EXCEPT !.params = Append(@, name.node)])
    [] method = "function_declaration:body" ->
         LET close == consume(tokens, current, "RIGHT_PAREN", <<"E","x","p","e","c","t"," ","'",")","'"," ","a","f","t","e","r"," ","p","a","r","a","m","e","t","e","r","s",".">>)
         IN IF ~close.ok THEN close
            ELSE LET brace == consume(tokens, close.current, "LEFT_BRACE",
                                      <<"E","x","p","e","c","t"," ","'","{","'"," ","b","e","f","o","r","e"," ","f","u","n","c","t","i","o","n"," ","b","o","d","y",".">>)
                 IN IF ~brace.ok THEN brace
                    ELSE LET body == Parser("declarations", tokens, brace.current,
                                            [statements |-> <<>>, braced |-> TRUE])
                         IN IF ~body.ok THEN body
                            ELSE LET end == consume(tokens, body.current, "RIGHT_BRACE",
                                                    <<"E","x","p","e","c","t"," ","'","}","'"," ","a","f","t","e","r"," ","f","u","n","c","t","i","o","n"," ","b","o","d","y",".">>)
                                 IN IF ~end.ok THEN end
                                    ELSE Parsed(FunctionStmt(arg.name, arg.params, body.node),
                                                end.current)
    [] method = "return_statement" ->
         IF ~check(tokens, current, "SEMICOLON") /\ ~check(tokens, current, "RIGHT_BRACE")
         THEN LET val == Parser("expression", tokens, current, None)
              IN IF ~val.ok THEN val
                 ELSE Parsed(Return(val.node), match(tokens, val.current, "SEMICOLON"))
         ELSE Parsed(Return(None), match(tokens, current, "SEMICOLON"))
    [] method = "expression" -> Parser("assignment", tokens, current, None)
    [] method = "assignment" ->
         LET expr == Parser("equality", tokens, current, None)
         IN IF ~expr.ok THEN expr
            ELSE IF check(tokens, expr.current, "EQUAL")
            THEN LET val == Parser("assignment", tokens, expr.current + 1, None)
                 IN IF ~val.ok THEN val
                    ELSE IF expr.node.k = "Variable"
                    THEN Parsed(Assign(expr.node.name, val.node), val.current)
                    ELSE [ok |-> FALSE, node |-> None, current |-> val.current,
                          msg |-> <<"I","n","v","a","l","i","d"," ","a","s","s","i","g","n","m","e","n","t"," ","t","a","r","g","e","t"," ","a","t"," ","l","i","n","e"," ">>
                                  \o NatStr(tokens[expr.current].line)]
            ELSE expr
    [] method \in DOMAIN BinaryLevels ->
         \* expr = operand(); while self.match(<operators>): expr = Binary(expr, op, operand())
         LET expr == IF arg = None THEN Parser(Operand[method], tokens, current, None) ELSE arg
         IN IF ~expr.ok THEN expr
            ELSE IF ~is_at_end(tokens, expr.current)
                    /\ tokens[expr.current].type \in BinaryLevels[method]
            THEN LET right == Parser(Operand[method], tokens, expr.current + 1, None)
                 IN IF ~right.ok THEN right
                    ELSE Parser(method, tokens, current,
                                Parsed(Binary(expr.node, tokens[expr.current], right.node),
                                       right.current))
            ELSE expr
    [] method = "unary" ->
         IF check(tokens, current, "BANG") \/ check(tokens, current, "MINUS")
         THEN LET right == Parser("unary", tokens, current + 1, None)
              IN IF ~right.ok THEN right
                 ELSE Parsed(Unary(tokens[current], right.node), right.current)
         ELSE Parser("call", tokens, current, None)
    [] method = "call" ->
         \* expr = self.primary(), then call and property suffixes while they follow
         LET expr == IF arg = None THEN Parser("primary", tokens, current, None) ELSE arg
         IN IF ~expr.ok THEN expr
            ELSE IF check(tokens, expr.current, "LEFT_PAREN")
            THEN LET args == IF check(tokens, expr.current + 1, "RIGHT_PAREN")
                             THEN Parsed(<<>>, expr.current + 1)
                             ELSE Parser("call:arguments", tokens, expr.current + 1, <<>>)
                 IN IF ~args.ok THEN args
                    ELSE LET close == consume(tokens, args.current, "RIGHT_PAREN",
                                              <<"E","x","p","e","c","t"," ","'",")","'"," ","a","f","t","e","r"," ","a","r","g","u","m","e","n","t","s",".">>)
                         IN IF ~close.ok THEN close
                            ELSE Parser("call", tokens, current,
                                        Parsed(Call(expr.node, args.node), close.current))
            ELSE IF check(tokens, expr.current, "DOT")
            THEN LET name == consume(tokens, expr.current + 1, "IDENTIFIER",
                                     <<"E","x","p","e","c","t"," ","p","r","o","p","e","r","t","y"," ","n","a","m","e"," ","a","f","t","e","r"," ","'",".","'",".">>)
                 IN IF ~name.ok THEN name
                    ELSE Parser("call", tokens, current,
                                Parsed(Get(expr.node, name.node), name.current))
            ELSE expr
    [] method = "call:arguments" ->
         \* args.append(self.expression()) while a comma follows
         LET e == Parser("expression", tokens, current, None)
         IN IF ~e.ok THEN e
            ELSE IF check(tokens, e.current, "COMMA")
            THEN Parser("call:arguments", tokens, e.current + 1, Append(arg, e.node))
            ELSE Parsed(Append(arg, e.node), e.current)
    [] method = "primary" ->
         IF check(tokens, current, "FALSE") THEN Parsed(Literal(BoolV(FALSE)), current + 1)
         ELSE IF check(tokens, current, "TRUE") THEN Parsed(Literal(BoolV(TRUE)), current + 1)
         ELSE IF check(tokens, current, "NIL") THEN Parsed(Literal(NilV), current + 1)
         ELSE IF check(tokens, current, "NUMBER") \/ check(tokens, current, "STRING")
         THEN Parsed(Literal(tokens[current].literal), current + 1)
         ELSE IF check(tokens, current, "IDENTIFIER")
         THEN Parsed(Variable(tokens[current]), current + 1)
         ELSE IF check(tokens, current, "LEFT_PAREN")
         THEN LET expr == Parser("expression", tokens, current + 1, None)
              IN IF ~expr.ok THEN expr
                 ELSE LET close == consume(tokens, expr.current, "RIGHT_PAREN",
                                           <<"E","x","p","e","c","t"," ","'",")","'"," ","a","f","t","e","r"," ","e","x","p","r","e","s","s","i","o","n",".">>)
                      IN IF ~close.ok THEN close
                         ELSE Parsed(Grouping(expr.node), close.current)
         ELSE [ok |-> FALSE, node |-> None, current |-> current,
               msg |-> <<"E","x","p","e","c","t","e","d"," ","e","x","p","r","e","s","s","i","o","n"," ","a","t"," ","l","i","n","e"," ">> \o NatStr(tokens[current].line)]

\* Parser(tokens).parse()
parse(tokens) == Parser("parse", tokens, 1, None)

\* Parser(Lexer(source).scan_tokens()).parse(): [ok, node, current, msg]
Compile(source) ==
  LET tokens == Lexer(source)
  IN IF tokens.ok THEN parse(tokens.tokens)
     ELSE [ok |-> FALSE, node |-> None, current |-> 0, msg |-> tokens.msg]

(***************************************************************************)
(* Operators of the evaluator.  A result is [ok, v, msg]: the value, or    *)
(* the message of the exception raised.                                    *)
(***************************************************************************)
Ok(v) == [ok |-> TRUE, v |-> v, msg |-> <<>>]

Err(msg) == [ok |-> FALSE, v |-> NilV, msg |-> msg]

\* left + right of two Python numbers: an int unless one of them is a float.
PyAdd(a, b) ==
  IF a.d = 0 /\ b.d = 0 THEN FloatV(IF a.n = b.n THEN a.n ELSE 0, 0)
  ELSE IF a.t = "float" \/ b.t = "float" THEN FloatV(a.n * b.d + b.n * a.d, a.d * b.d)
  ELSE IntV(a.n + b.n)

\* a < b of two Python numbers
PyLess(a, b) ==
  IF IsNaN(a) \/ IsNaN(b) THEN FALSE
  ELSE IF a.d = 0 /\ b.d = 0 THEN a.n < b.n
  ELSE a.n * b.d < b.n * a.d

\* a / b of two Python numbers, b not zero
PyDiv(a, b) ==
  IF a.d = 0 /\ b.d # 0 THEN FloatV(a.n * b.n, 0) ELSE FloatV(a.n * b.d, a.d * b.n)

\* a <op> b of two floats, for the arithmetic and ordering operators.
FloatArith(operator, a, b) ==
  CASE operator = "MINUS" -> Ok(PyAdd(a, [b EXCEPT !.n = -b.n]))
    [] operator = "STAR" -> Ok(FloatV(a.n * b.n, a.d * b.d))
    [] operator = "SLASH" ->
         IF b.n = 0 /\ b.d # 0 THEN Err(<<"f","l","o","a","t"," ","d","i","v","i","s","i","o","n"," ","b","y"," ","z","e","r","o">>)
         ELSE Ok(PyDiv(a, b))
    [] operator = "GREATER" -> Ok(BoolV(PyLess(b, a)))
    [] operator = "GREATER_EQUAL" -> Ok(BoolV(PyLess(b, a) \/ PyEq(a, b, <<>>)))
    [] operator = "LESS" -> Ok(BoolV(PyLess(a, b)))
    [] operator = "LESS_EQUAL" -> Ok(BoolV(PyLess(a, b) \/ PyEq(a, b, <<>>)))

\* float(left) <op> float(right): left is converted first.
FloatOp(operator, left, right) ==
  LET a == ToFloat(left)
      b == ToFloat(right)
  IN IF ~a.ok THEN Err(a.msg)
     ELSE IF ~b.ok THEN Err(b.msg)
     ELSE FloatArith(operator, a.v, b.v)

\* evaluate, Binary branch, once both operands are values.
BinaryOp(operator, left, right, nss) ==
  CASE operator = "PLUS" ->
         IF IsNumber(left) /\ IsNumber(right) THEN Ok(PyAdd(left, right))
         ELSE IF left.t = "str" /\ right.t = "str" THEN Ok(StrV(left.s \o right.s))
         ELSE Err(<<"O","p","e","r","a","n","d","s"," ","m","u","s","t"," ","b","e"," ","t","w","o"," ","n","u","m","b","e","r","s"," ","o","r"," ","t","w","o"," ","s","t","r","i","n","g","s">>)
    [] operator = "BANG_EQUAL" -> Ok(BoolV(~is_equal(left, right, nss)))
    [] operator = "EQUAL_EQUAL" -> Ok(BoolV(is_equal(left, right, nss)))
    [] operator \in {"MINUS", "STAR", "SLASH", "GREATER", "GREATER_EQUAL", "LESS",
                     "LESS_EQUAL"} -> FloatOp(operator, left, right)
    [] OTHER -> Ok(NilV)

\* evaluate, Unary branch, once the operand is a value.
UnaryOp(operator, right) ==
  CASE operator = "MINUS" ->
         LET a == ToFloat(right)
         IN IF a.ok THEN Ok(FloatV(-a.v.n, a.v.d)) ELSE Err(a.msg)
    [] operator = "BANG" -> Ok(BoolV(~is_truthy(right)))
    [] OTHER -> Ok(NilV)

(***************************************************************************)
(* The host runtime: the Python objects a program can reach.  input and    *)
(* sleep are bound in the root environment; a module of the host is found  *)
(* by the import fallback.                                                 *)
(***************************************************************************)
HostObjects == <<
  [name |-> "input", callable |-> TRUE, attrs |-> <<>>],
  [name |-> "sleep", callable |-> TRUE, attrs |-> <<>>],
  [name |-> "pyspigot", callable |-> FALSE, attrs |-> (<<"B","u","k","k","i","t">> :> 4)],
  [name |-> "Bukkit", callable |-> TRUE, attrs |-> (<<"g","e","t","N","a","m","e">> :> 5)],
  [name |-> "getName", callable |-> TRUE, attrs |-> <<>>] >>

\* The Python modules __import__ finds, by name.
HostModules == (<<"p","y","s","p","i","g","o","t">> :> 3)

\* The lines a read of standard input can return.
StdinLines == {<<"7">>, <<"n", "o">>}

\* __import__(parts[0]) and getattr along the rest: the object, or None.
RECURSIVE HostAttrs(_, _)
HostAttrs(id, names) ==
  IF names = <<>> THEN HostV(id)
  ELSE IF Head(names) \in DOMAIN HostObjects[id].attrs
  THEN HostAttrs(HostObjects[id].attrs[Head(names)], Tail(names))
  ELSE NilV

HostImport(parts) ==
  IF parts[1] \in DOMAIN HostModules THEN HostAttrs(HostModules[parts[1]], Tail(parts))
  ELSE NilV

\* callee(*args) of a host callable other than input.
HostCall(id, args) ==
  CASE HostObjects[id].name = "sleep" ->
         IF Len(args) = 1 /\ IsNumber(args[1]) /\ args[1].n >= 0 THEN Ok(NilV)
         ELSE Err(<<"s","l","e","e","p","(",")"," ","a","r","g","u","m","e","n","t"," ","e","r","r","o","r">>)
    [] HostObjects[id].name = "getName" ->
         IF Len(args) = 0 THEN Ok(StrV(<<"P","y","S","p","i","g","o","t"," ","S","e","r","v","e","r">>))
         ELSE Err(<<"g","e","t","N","a","m","e","(",")"," ","t","a","k","e","s"," ","0"," ","p","o","s","i","t","i","o","n","a","l"," ","a","r","g","u","m","e","n","t","s">>)
    [] OTHER -> Ok(HostV(id))

(***************************************************************************)
(* The files import can find.  dir is the position of the base directory   *)
(* in search_dirs (the working directory, the repository root, its         *)
(* examples directory); init tells <base>/<parts>/__init__.capla from      *)
(* <base>/<parts>.capla.                                                   *)
(***************************************************************************)
FindFile(files, parts) ==
  LET hit(c) == {i \in 1..Len(files) : /\ files[i].parts = parts
                                        /\ files[i].dir = (c + 1) \div 2
                                        /\ files[i].init = (c % 2 = 0)}
      cs == {c \in 1..6 : hit(c) # {}}
  IN IF cs = {} THEN 0
     ELSE LET c == CHOOSE x \in cs : \A y \in cs : x <= y
          IN CHOOSE i \in hit(c) : TRUE

Lexemes(path) == [i \in 1..Len(path) |-> path[i].lexeme]

\* '.'.join(parts)
RECURSIVE Join(_)
Join(parts) ==
  IF Len(parts) = 1 THEN parts[1] ELSE parts[1] \o <<".">> \o Join(Tail(parts))

(***************************************************************************)
(* The interpreter as a machine.  ctrl is what is being done: executing a  *)
(* statement, evaluating an expression, handing a value or a completed     *)
(* statement to the caller, or unwinding with an exception.  kont is the   *)
(* Python call stack: one frame per activation of execute, evaluate,       *)
(* execute_block, FunctionCallable.call and interpret that awaits a        *)
(* result, innermost first.                                                *)
(***************************************************************************)
VARIABLES
  ctrl,          \* the current step
  kont,          \* the pending activations
  environment,   \* Interpreter.environment: an index of heap
  heap,          \* every Environment created
  closures,      \* every FunctionCallable created: [declaration, closure]
  namespaces,    \* every SimpleNamespace created: its attributes
  module_cache,  \* Interpreter.module_cache
  out,           \* the lines written to standard output
  debug,         \* Interpreter.debug
  pid            \* the program being interpreted: an index of Programs

vars == <<ctrl, kont, environment, heap, closures, namespaces, module_cache, out,
          debug, pid>>

exec(s) == [m |-> "exec", s |-> s]
eval(e) == [m |-> "eval", e |-> e]
value(v) == [m |-> "value", v |-> v]
completed == [m |-> "completed"]
\* raise RuntimeError(msg), or any other Exception whose str() is msg
raise(msg) == [m |-> "raise", exc |-> [kind |-> "Exception", v |-> NilV, msg |-> msg]]
\* raise ReturnException(v): str() of it is str(v)
ReturnException(v) == [m |-> "raise", exc |-> [kind |-> "ReturnException", v |-> v, msg |-> Str(v)]]
\* the outcome of a result [ok, v, msg]
outcome(r) == IF r.ok THEN value(r.v) ELSE raise(r.msg)

\* The closure calls and module loads in progress.
Depth(k) == Cardinality({i \in 1..Len(k) : k[i].k \in {"call", "import"}})

\* execute_block(statements, env), called with the frames k pending.
execute_block(k, statements) ==
  <<[k |-> "execute_block", previous |-> environment, rest |-> statements]>> \o k

(***************************************************************************)
(* execute: one action per statement kind, and one per point where the     *)
(* statement resumes.                                                      *)
(***************************************************************************)
ExecExpressionStmt ==
  /\ ctrl.m = "exec" /\ ctrl.s.k = "ExpressionStmt"
  /\ kont' = <<[k |-> "expression"]>> \o kont
  /\ ctrl' = eval(ctrl.s.expression)
  /\ UNCHANGED <<environment, heap, closures, namespaces, module_cache, out, debug, pid>>

ExpressionStmtDone ==
  /\ ctrl.m = "value" /\ Head(kont).k = "expression"
  /\ kont' = Tail(kont)
  /\ ctrl' = completed
  /\ UNCHANGED <<environment, heap, closures, namespaces, module_cache, out, debug, pid>>

ExecPrintStmt ==
  /\ ctrl.m = "exec" /\ ctrl.s.k = "PrintStmt"
  /\ kont' = <<[k |-> "print"]>> \o kont
  /\ ctrl' = eval(ctrl.s.expression)
  /\ UNCHANGED <<environment, heap, closures, namespaces, module_cache, out, debug, pid>>

PrintStmtDone ==
  /\ ctrl.m = "value" /\ Head(kont).k = "print"
  /\ out' = Append(out, Str(ctrl.v))
  /\ kont' = Tail(kont)
  /\ ctrl' = completed
  /\ UNCHANGED <<environment, heap, closures, namespaces, module_cache, debug, pid>>

ExecVarStmt ==
  /\ ctrl.m = "exec" /\ ctrl.s.k = "VarStmt"
  /\ kont' = <<[k |-> "var", stmt |-> ctrl.s]>> \o kont
  /\ ctrl' = IF ctrl.s.initializer = None THEN value(NilV) ELSE eval(ctrl.s.initializer)
  /\ UNCHANGED <<environment, heap, closures, namespaces, module_cache, out, debug, pid>>

VarStmtDefine ==
  /\ ctrl.m = "value" /\ Head(kont).k = "var"
  /\ LET stmt == Head(kont).stmt
         c == IF stmt.vtype = None THEN Ok(ctrl.v) ELSE coerce_value(ctrl.v, stmt.vtype.lexeme)
     IN /\ kont' = Tail(kont)
        /\ IF c.ok
           THEN /\ heap' = define(IF stmt.vtype = None THEN heap
                                  ELSE [heap EXCEPT ![environment].types =
                                          (stmt.name.lexeme :> stmt.vtype.lexeme) @@ @],
                                  environment, stmt.name.lexeme, c.v)
                /\ ctrl' = completed
           ELSE /\ heap' = heap
                /\ ctrl' = raise(c.msg)
  /\ UNCHANGED <<environment, closures, namespaces, module_cache, out, debug, pid>>

ExecBlockStmt ==
  /\ ctrl.m = "exec" /\ ctrl.s.k = "BlockStmt"
  /\ heap' = Append(heap, Environment(environment))
  /\ environment' = Len(heap) + 1
  /\ kont' = execute_block(kont, ctrl.s.statements)
  /\ ctrl' = completed
  /\ UNCHANGED <<closures, namespaces, module_cache, out, debug, pid>>

\* execute_block: the next statement of the list
BlockNext ==
  /\ ctrl.m = "completed" /\ Head(kont).k = "execute_block" /\ Head(kont).rest # <<>>
  /\ kont' = <<[Head(kont) EXCEPT !.rest = Tail(@)]>> \o Tail(kont)
  /\ ctrl' = exec(Head(Head(kont).rest))
  /\ UNCHANGED <<environment, heap, closures, namespaces, module_cache, out, debug, pid>>

\* execute_block as it would be without the finally that restores the
\* environment
BlockExitKeepsScope ==
  /\ ctrl.m = "completed" /\ Head(kont).k = "execute_block" /\ Head(kont).rest = <<>>
  /\ kont' = Tail(kont)
  /\ ctrl' = completed
  /\ UNCHANGED <<environment, heap, closures, namespaces, module_cache, out, debug, pid>>

\* execute_block: the list is done; finally restores the environment
BlockExit ==
  /\ ctrl.m = "completed" /\ Head(kont).k = "execute_block" /\ Head(kont).rest = <<>>
  /\ environment' = Head(kont).previous
  /\ kont' = Tail(kont)
  /\ ctrl' = completed
  /\ UNCHANGED <<heap, closures, namespaces, module_cache, out, debug, pid>>

\* execute_block as it would be if an exception passed it without the finally
BlockUnwindKeepsScope ==
  /\ ctrl.m = "raise" /\ Head(kont).k = "execute_block"
  /\ kont' = Tail(kont)
  /\ ctrl' = ctrl
  /\ UNCHANGED <<environment, heap, closures, namespaces, module_cache, out, debug, pid>>

\* execute_block: an exception passes; finally restores the environment
BlockUnwind ==
  /\ ctrl.m = "raise" /\ Head(kont).k = "execute_block"
  /\ environment' = Head(kont).previous
  /\ kont' = Tail(kont)
  /\ ctrl' = ctrl
  /\ UNCHANGED <<heap, closures, namespaces, module_cache, out, debug, pid>>

ExecIfStmt ==
  /\ ctrl.m = "exec" /\ ctrl.s.k = "IfStmt"
  /\ kont' = <<[k |-> "if", stmt |-> ctrl.s]>> \o kont
  /\ ctrl' = eval(ctrl.s.condition)
  /\ UNCHANGED <<environment, heap, closures, namespaces, module_cache, out, debug, pid>>

IfStmtBranch ==
  /\ ctrl.m = "value" /\ Head(kont).k = "if"
  /\ kont' = Tail(kont)
  /\ ctrl' = IF is_truthy(ctrl.v) THEN exec(Head(kont).stmt.then_branch)
             ELSE IF Head(kont).stmt.else_branch # None
             THEN exec(Head(kont).stmt.else_branch)
             ELSE completed
  /\ UNCHANGED <<environment, heap, closures, namespaces, module_cache, out, debug, pid>>

ExecWhileStmt ==
  /\ ctrl.m = "exec" /\ ctrl.s.k = "WhileStmt"
  /\ kont' = <<[k |-> "while_condition", stmt |-> ctrl.s]>> \o kont
  /\ ctrl' = eval(ctrl.s.condition)
  /\ UNCHANGED <<environment, heap, closures, namespaces, module_cache, out, debug, pid>>

WhileStmtTest ==
  /\ ctrl.m = "value" /\ Head(kont).k = "while_condition"
  /\ IF is_truthy(ctrl.v)
     THEN /\ kont' = <<[k |-> "while_body", stmt |-> Head(kont).stmt]>> \o Tail(kont)
          /\ ctrl' = exec(Head(kont).stmt.body)
     ELSE /\ kont' = Tail(kont)
          /\ ctrl' = completed
  /\ UNCHANGED <<environment, heap, closures, namespaces, module_cache, out, debug, pid>>

\* the loop as it would be if the body ran once and the condition was not
\* tested again
WhileStmtOnce ==
  /\ ctrl.m = "completed" /\ Head(kont).k = "while_body"
  /\ kont' = Tail(kont)
  /\ ctrl' = completed
  /\ UNCHANGED <<environment, heap, closures, namespaces, module_cache, out, debug, pid>>

WhileStmtLoop ==
  /\ ctrl.m = "completed" /\ Head(kont).k = "while_body"
  /\ kont' = <<[k |-> "while_condition", stmt |-> Head(kont).stmt]>> \o Tail(kont)
  /\ ctrl' = eval(Head(kont).stmt.condition)
  /\ UNCHANGED <<environment, heap, closures, namespaces, module_cache, out, debug, pid>>

ExecFunctionStmt ==
  /\ ctrl.m = "exec" /\ ctrl.s.k = "FunctionStmt"
  /\ closures' = Append(closures, [declaration |-> ctrl.s, closure |-> environment])
  /\ heap' = define(heap, environment, ctrl.s.name.lexeme, FunV(Len(closures) + 1))
  /\ ctrl' = completed
  /\ UNCHANGED <<kont, environment, namespaces, module_cache, out, debug, pid>>

ExecTryStmt ==
  /\ ctrl.m = "exec" /\ ctrl.s.k = "TryStmt"
  /\ heap' = Append(heap, Environment(environment))
  /\ environment' = Len(heap) + 1
  /\ kont' = execute_block(<<[k |-> "try", stmt |-> ctrl.s]>> \o kont, ctrl.s.try_block)
  /\ ctrl' = completed
  /\ UNCHANGED <<closures, namespaces, module_cache, out, debug, pid>>

TryStmtDone ==
  /\ ctrl.m = "completed" /\ Head(kont).k = "try"
  /\ kont' = Tail(kont)
  /\ ctrl' = completed
  /\ UNCHANGED <<environment, heap, closures, namespaces, module_cache, out, debug, pid>>

\* except Exception as e, with a catch block: ReturnException is an Exception
TryStmtCatch ==
  /\ ctrl.m = "raise" /\ Head(kont).k = "try" /\ Head(kont).stmt.catch_block # None
  /\ LET stmt == Head(kont).stmt
         env == Len(heap) + 1
         h == Append(heap, Environment(environment))
     IN /\ heap' = IF stmt.catch_param # None
                   THEN define(h, env, stmt.catch_param.lexeme, StrV(ctrl.exc.msg))
                   ELSE h
        /\ environment' = env
        /\ kont' = execute_block(Tail(kont), stmt.catch_block.items)
  /\ ctrl' = completed
  /\ UNCHANGED <<closures, namespaces, module_cache, out, debug, pid>>

\* except Exception as e, without a catch block: raise
TryStmtReraise ==
  /\ ctrl.m = "raise" /\ Head(kont).k = "try" /\ Head(kont).stmt.catch_block = None
  /\ kont' = Tail(kont)
  /\ ctrl' = ctrl
  /\ UNCHANGED <<environment, heap, closures, namespaces, module_cache, out, debug, pid>>

ExecReturn ==
  /\ ctrl.m = "exec" /\ ctrl.s.k = "Return"
  /\ IF ctrl.s.value = None
     THEN /\ kont' = kont
          /\ ctrl' = ReturnException(NilV)
     ELSE /\ kont' = <<[k |-> "return"]>> \o kont
          /\ ctrl' = eval(ctrl.s.value)
  /\ UNCHANGED <<environment, heap, closures, namespaces, module_cache, out, debug, pid>>

ReturnRaise ==
  /\ ctrl.m = "value" /\ Head(kont).k = "return"
  /\ kont' = Tail(kont)
  /\ ctrl' = ReturnException(ctrl.v)
  /\ UNCHANGED <<environment, heap, closures, namespaces, module_cache, out, debug, pid>>

(***************************************************************************)
(* evaluate: one action per expression kind, and one per point where the   *)
(* evaluation resumes.                                                     *)
(***************************************************************************)
EvalLiteral ==
  /\ ctrl.m = "eval" /\ ctrl.e.k = "Literal"
  /\ ctrl' = value(ctrl.e.value)
  /\ UNCHANGED <<kont, environment, heap, closures, namespaces, module_cache, out, debug, pid>>

EvalGrouping ==
  /\ ctrl.m = "eval" /\ ctrl.e.k = "Grouping"
  /\ ctrl' = eval(ctrl.e.expression)
  /\ UNCHANGED <<kont, environment, heap, closures, namespaces, module_cache, out, debug, pid>>

EvalUnary ==
  /\ ctrl.m = "eval" /\ ctrl.e.k = "Unary"
  /\ kont' = <<[k |-> "unary", operator |-> ctrl.e.operator]>> \o kont
  /\ ctrl' = eval(ctrl.e.right)
  /\ UNCHANGED <<environment, heap, closures, namespaces, module_cache, out, debug, pid>>

UnaryApply ==
  /\ ctrl.m = "value" /\ Head(kont).k = "unary"
  /\ kont' = Tail(kont)
  /\ ctrl' = outcome(UnaryOp(Head(kont).operator.type, ctrl.v))
  /\ UNCHANGED <<environment, heap, closures, namespaces, module_cache, out, debug, pid>>

EvalBinary ==
  /\ ctrl.m = "eval" /\ ctrl.e.k = "Binary"
  /\ kont' = <<[k |-> "binary_left", expr |-> ctrl.e]>> \o kont
  /\ ctrl' = eval(ctrl.e.left)
  /\ UNCHANGED <<environment, heap, closures, namespaces, module_cache, out, debug, pid>>

BinaryRight ==
  /\ ctrl.m = "value" /\ Head(kont).k = "binary_left"
  /\ kont' = <<[k |-> "binary_right", operator |-> Head(kont).expr.operator,
                left |-> ctrl.v]>> \o Tail(kont)
  /\ ctrl' = eval(Head(kont).expr.right)
  /\ UNCHANGED <<environment, heap, closures, namespaces, module_cache, out, debug, pid>>

BinaryApply ==
  /\ ctrl.m = "value" /\ Head(kont).k = "binary_right"
  /\ kont' = Tail(kont)
  /\ ctrl' = outcome(BinaryOp(Head(kont).operator.type, Head(kont).left, ctrl.v, namespaces))
  /\ UNCHANGED <<environment, heap, closures, namespaces, module_cache, out, debug, pid>>

EvalVariable ==
  /\ ctrl.m = "eval" /\ ctrl.e.k = "Variable"
  /\ LET r == get(heap, environment, ctrl.e.name.lexeme)
     IN ctrl' = IF r.found THEN value(r.v)
                ELSE raise(<<"U","n","d","e","f","i","n","e","d"," ","v","a","r","i","a","b","l","e"," ","'">> \o ctrl.e.name.lexeme \o <<"'">>)
  /\ UNCHANGED <<kont, environment, heap, closures, namespaces, module_cache, out, debug, pid>>

EvalGet ==
  /\ ctrl.m = "eval" /\ ctrl.e.k = "Get"
  /\ kont' = <<[k |-> "get", name |-> ctrl.e.name]>> \o kont
  /\ ctrl' = eval(ctrl.e.object)
  /\ UNCHANGED <<environment, heap, closures, namespaces, module_cache, out, debug, pid>>

\* getattr(obj, name): the attributes of a namespace or of a host object.  The
\* attributes Python's own types carry are not among the names of the model.
GetApply ==
  /\ ctrl.m = "value" /\ Head(kont).k = "get"
  /\ LET name == Head(kont).name.lexeme
         attrs == IF ctrl.v.t = "ns" THEN namespaces[ctrl.v.n]
                  ELSE IF ctrl.v.t = "host"
                  THEN [a \in DOMAIN HostObjects[ctrl.v.n].attrs |->
                          HostV(HostObjects[ctrl.v.n].attrs[a])]
                  ELSE <<>>
     IN ctrl' = IF name \in DOMAIN attrs THEN value(attrs[name])
                ELSE raise(<<"A","t","t","r","i","b","u","t","e"," ","'">> \o name \o <<"'"," ","n","o","t"," ","f","o","u","n","d"," ","o","n"," ","o","b","j","e","c","t">>)
  /\ kont' = Tail(kont)
  /\ UNCHANGED <<environment, heap, closures, namespaces, module_cache, out, debug, pid>>

EvalAssign ==
  /\ ctrl.m = "eval" /\ ctrl.e.k = "Assign"
  /\ kont' = <<[k |-> "assign", name |-> ctrl.e.name]>> \o kont
  /\ ctrl' = eval(ctrl.e.value)
  /\ UNCHANGED <<environment, heap, closures, namespaces, module_cache, out, debug, pid>>

AssignApply ==
  /\ ctrl.m = "value" /\ Head(kont).k = "assign"
  /\ LET name == Head(kont).name.lexeme
         vtype == get_type(heap, environment, name)
         c == IF vtype.found THEN coerce_value(ctrl.v, vtype.vtype) ELSE Ok(ctrl.v)
         a == assign(heap, environment, name, c.v)
     IN IF ~c.ok
        THEN /\ heap' = heap
             /\ ctrl' = raise(c.msg)
        ELSE /\ heap' = a.heap
             /\ ctrl' = IF a.found THEN value(c.v)
                        ELSE raise(<<"U","n","d","e","f","i","n","e","d"," ","v","a","r","i","a","b","l","e"," ","'">> \o name \o <<"'">>)
  /\ kont' = Tail(kont)
  /\ UNCHANGED <<environment, closures, namespaces, module_cache, out, debug, pid>>

EvalCall ==
  /\ ctrl.m = "eval" /\ ctrl.e.k = "Call"
  /\ kont' = <<[k |-> "callee", arguments |-> ctrl.e.arguments]>> \o kont
  /\ ctrl' = eval(ctrl.e.callee)
  /\ UNCHANGED <<environment, heap, closures, namespaces, module_cache, out, debug, pid>>

\* the callee is a value: the arguments are next
CallCallee ==
  /\ ctrl.m = "value" /\ Head(kont).k = "callee"
  /\ kont' = <<[k |-> "arguments", callee |-> ctrl.v, args |-> <<>>,
                rest |-> Head(kont).arguments]>> \o Tail(kont)
  /\ ctrl' = [m |-> "arguments"]
  /\ UNCHANGED <<environment, heap, closures, namespaces, module_cache, out, debug, pid>>

\* args = [self.evaluate(a) for a in expr.arguments]: the next argument
CallArgument ==
  /\ ctrl.m = "arguments" /\ Head(kont).rest # <<>>
  /\ kont' = <<[Head(kont) EXCEPT !.rest = Tail(@)]>> \o Tail(kont)
  /\ ctrl' = eval(Head(Head(kont).rest))
  /\ UNCHANGED <<environment, heap, closures, namespaces, module_cache, out, debug, pid>>

CallArgumentDone ==
  /\ ctrl.m = "value" /\ Head(kont).k = "arguments"
  /\ kont' = <<[Head(kont) EXCEPT !.args = Append(@, ctrl.v)]>> \o Tail(kont)
  /\ ctrl' = [m |-> "arguments"]
  /\ UNCHANGED <<environment, heap, closures, namespaces, module_cache, out, debug, pid>>

\* the binding as it would be with the arguments taken one place late
BindParametersShifted(params, args) ==
  [name \in {params[i].lexeme : i \in 1..Len(params)} |->
     LET i == CHOOSE j \in 1..Len(params) :
                /\ params[j].lexeme = name
                /\ \A l \in 1..Len(params) : params[l].lexeme = name => l <= j
     IN IF i < Len(args) THEN args[i + 1] ELSE NilV]

\* the values the parameters are bound to: args[i] if i < len(args) else None,
\* a later parameter of the same name replacing an earlier one
BindParameters(params, args) ==
  [name \in {params[i].lexeme : i \in 1..Len(params)} |->
     LET i == CHOOSE j \in 1..Len(params) :
                /\ params[j].lexeme = name
                /\ \A l \in 1..Len(params) : params[l].lexeme = name => l <= j
     IN IF i <= Len(args) THEN args[i] ELSE NilV]

\* the call as it would be if the body ran in the closure's own environment
CallFunctionInClosure ==
  /\ ctrl.m = "arguments" /\ Head(kont).rest = <<>> /\ Head(kont).callee.t = "fun"
  /\ Depth(kont) < MaxDepth
  /\ LET f == closures[Head(kont).callee.n]
         bound == BindParameters(f.declaration.params, Head(kont).args)
     IN /\ heap' = [heap EXCEPT ![f.closure].values = bound @@ @]
        /\ environment' = f.closure
        /\ kont' = execute_block(<<[k |-> "call", function |-> Head(kont).callee.n,
                                    env |-> f.closure]>> \o Tail(kont),
                                 f.declaration.body)
  /\ ctrl' = completed
  /\ UNCHANGED <<closures, namespaces, module_cache, out, debug, pid>>

\* FunctionCallable.call: a new Environment on the closure, the parameters
\* bound in it, the body run by execute_block
CallFunction ==
  /\ ctrl.m = "arguments" /\ Head(kont).rest = <<>> /\ Head(kont).callee.t = "fun"
  /\ Depth(kont) < MaxDepth
  /\ LET f == closures[Head(kont).callee.n]
         env == [Environment(f.closure) EXCEPT
                   !.values = BindParameters(f.declaration.params, Head(kont).args)]
     IN /\ heap' = Append(heap, env)
        /\ environment' = Len(heap) + 1
        /\ kont' = execute_block(<<[k |-> "call", function |-> Head(kont).callee.n,
                                    env |-> Len(heap) + 1]>> \o Tail(kont),
                                 f.declaration.body)
  /\ ctrl' = completed
  /\ UNCHANGED <<closures, namespaces, module_cache, out, debug, pid>>

\* Python's stack is exhausted: RecursionError
CallRecursionError ==
  /\ ctrl.m = "arguments" /\ Head(kont).rest = <<>> /\ Head(kont).callee.t = "fun"
  /\ Depth(kont) >= MaxDepth
  /\ kont' = Tail(kont)
  /\ ctrl' = raise(<<"m","a","x","i","m","u","m"," ","r","e","c","u","r","s","i","o","n"," ","d","e","p","t","h"," ","e","x","c","e","e","d","e","d">>)
  /\ UNCHANGED <<environment, heap, closures, namespaces, module_cache, out, debug, pid>>

\* except ReturnException as r: return r.value
CallReturn ==
  /\ ctrl.m = "raise" /\ Head(kont).k = "call" /\ ctrl.exc.kind = "ReturnException"
  /\ kont' = Tail(kont)
  /\ ctrl' = value(ctrl.exc.v)
  /\ UNCHANGED <<environment, heap, closures, namespaces, module_cache, out, debug, pid>>

\* the body completed: return None
CallFallThrough ==
  /\ ctrl.m = "completed" /\ Head(kont).k = "call"
  /\ kont' = Tail(kont)
  /\ ctrl' = value(NilV)
  /\ UNCHANGED <<environment, heap, closures, namespaces, module_cache, out, debug, pid>>

\* callee(*args) of a host callable
CallHost ==
  /\ ctrl.m = "arguments" /\ Head(kont).rest = <<>>
  /\ Head(kont).callee.t = "host" /\ HostObjects[Head(kont).callee.n].callable
  /\ HostObjects[Head(kont).callee.n].name # "input"
  /\ kont' = Tail(kont)
  /\ ctrl' = outcome(HostCall(Head(kont).callee.n, Head(kont).args))
  /\ UNCHANGED <<environment, heap, closures, namespaces, module_cache, out, debug, pid>>

\* input(prompt): the prompt is written, a line of standard input is the value
CallInput ==
  /\ ctrl.m = "arguments" /\ Head(kont).rest = <<>>
  /\ Head(kont).callee.t = "host" /\ HostObjects[Head(kont).callee.n].name = "input"
  /\ Len(Head(kont).args) <= 1
  /\ \E line \in StdinLines : ctrl' = value(StrV(line))
  /\ out' = Append(out, IF Head(kont).args = <<>> \/ Head(kont).args[1].t = "nil" THEN <<>>
                        ELSE Str(Head(kont).args[1]))
  /\ kont' = Tail(kont)
  /\ UNCHANGED <<environment, heap, closures, namespaces, module_cache, debug, pid>>

\* the call as it would be if calling a value that is not callable gave nil
CallNotCallableYieldsNil ==
  /\ ctrl.m = "arguments" /\ Head(kont).rest = <<>>
  /\ Head(kont).callee.t # "fun"
  /\ ~(Head(kont).callee.t = "host" /\ HostObjects[Head(kont).callee.n].callable)
  /\ kont' = Tail(kont)
  /\ ctrl' = value(NilV)
  /\ UNCHANGED <<environment, heap, closures, namespaces, module_cache, out, debug, pid>>

CallNotCallable ==
  /\ ctrl.m = "arguments" /\ Head(kont).rest = <<>>
  /\ Head(kont).callee.t # "fun"
  /\ ~(Head(kont).callee.t = "host" /\ HostObjects[Head(kont).callee.n].callable)
  /\ kont' = Tail(kont)
  /\ ctrl' = raise(<<"C","a","n"," ","o","n","l","y"," ","c","a","l","l"," ","f","u","n","c","t","i","o","n","s"," ","a","n","d"," ","c","a","l","l","a","b","l","e"," ","o","b","j","e","c","t","s">>)
  /\ UNCHANGED <<environment, heap, closures, namespaces, module_cache, out, debug, pid>>

\* an exception leaves an activation that does not handle it
Propagate ==
  /\ ctrl.m = "raise"
  /\ Head(kont).k \in {"expression", "print", "var", "if", "while_condition",
                        "while_body", "return", "unary", "binary_left",
                        "binary_right", "get", "assign", "callee", "arguments"}
                         \cup (IF ctrl.exc.kind = "ReturnException" THEN {} ELSE {"call"})
  /\ kont' = Tail(kont)
  /\ ctrl' = ctrl
  /\ UNCHANGED <<environment, heap, closures, namespaces, module_cache, out, debug, pid>>

(***************************************************************************)
(* The source files import can find in a run of the model.                 *)
(***************************************************************************)
File(dir, init, parts, source) ==
  [dir |-> dir, init |-> init, parts |-> parts, source |-> source]

Files == <<
  \* a.capla:  import b   var x = 1
  File(1, FALSE, <<<<"a">>>>, <<"i","m","p","o","r","t"," ","b","\n","v","a","r"," ","x"," ","="," ","1">>),
  \* b.capla:  import a   var y = 2
  File(1, FALSE, <<<<"b">>>>, <<"i","m","p","o","r","t"," ","a","\n","v","a","r"," ","y"," ","="," ","2">>),
  \* m.capla:  var v = 1   def f() { v = v + 1; return v; }
  File(2, FALSE, <<<<"m">>>>, <<"v","a","r"," ","v"," ","="," ","1","\n","d","e","f"," ","f","(",")"," ","{"," ","v"," ","="," ","v"," ","+"," ","1",";"," ","r","e","t","u","r","n"," ","v",";"," ","}">>),
  \* examples/m/__init__.capla, hidden by m.capla
  File(3, TRUE, <<<<"m">>>>, <<"v","a","r"," ","v"," ","="," ","9">>),
  \* k/n/__init__.capla:  var w = 4
  File(3, TRUE, <<<<"k">>, <<"n">>>>, <<"v","a","r"," ","w"," ","="," ","4">>),
  \* p.capla does not parse:  var = 1
  File(1, FALSE, <<<<"p">>>>, <<"v","a","r"," ","="," ","1">>),
  \* q.capla does not lex:  var c = #
  File(1, FALSE, <<<<"q">>>>, <<"v","a","r"," ","c"," ","="," ","#">>),
  \* r.capla fails when run:  var c = 1   print u
  File(1, FALSE, <<<<"r">>>>, <<"v","a","r"," ","c"," ","="," ","1","\n","p","r","i","n","t"," ","u">>),
  \* s.capla:  var w = g   g = 5
  File(1, FALSE, <<<<"s">>>>, <<"v","a","r"," ","w"," ","="," ","g","\n","g"," ","="," ","5">>) >>

(***************************************************************************)
(* execute, ImportStmt branch.                                             *)
(***************************************************************************)
\* the cached module is returned if there is one
ImportCached ==
  /\ ctrl.m = "exec" /\ ctrl.s.k = "ImportStmt"
  /\ LET parts == Lexemes(ctrl.s.path)
         modname == Join(parts)
     IN /\ modname \in DOMAIN module_cache /\ module_cache[modname] # NilV
        /\ heap' = define(heap, environment, parts[Len(parts)], module_cache[modname])
  /\ ctrl' = completed
  /\ UNCHANGED <<kont, environment, closures, namespaces, module_cache, out, debug, pid>>

\* what the try block has before it runs the module: the statements of the file
\* found, or the Exception of the lexer, of the parser or of Python's stack
LoadModule(file, depth) ==
  IF depth >= MaxDepth
  THEN [ok |-> FALSE, node |-> None, current |-> 0,
        msg |-> <<"m","a","x","i","m","u","m"," ","r","e","c","u","r","s","i","o","n"," ","d","e","p","t","h"," ","e","x","c","e","e","d","e","d">>]
  ELSE Compile(file.source)

\* a file is found: the module is marked and run in an Environment of its own
ImportLoad ==
  /\ ctrl.m = "exec" /\ ctrl.s.k = "ImportStmt"
  /\ LET parts == Lexemes(ctrl.s.path)
         modname == Join(parts)
         found == FindFile(Files, parts)
     IN /\ ~(modname \in DOMAIN module_cache /\ module_cache[modname] # NilV)
        /\ found # 0
        /\ LoadModule(Files[found], Depth(kont)).ok
        /\ module_cache' = (modname :> NilV) @@ module_cache
        /\ heap' = Append(heap, Environment(environment))
        /\ environment' = Len(heap) + 1
        /\ kont' = execute_block(<<[k |-> "import", modname |-> modname,
                                    last |-> parts[Len(parts)],
                                    module_env |-> Len(heap) + 1]>> \o kont,
                                 LoadModule(Files[found], Depth(kont)).node)
  /\ ctrl' = completed
  /\ UNCHANGED <<closures, namespaces, out, debug, pid>>

\* a file is found and cannot be read as a program
ImportLoadFail ==
  /\ ctrl.m = "exec" /\ ctrl.s.k = "ImportStmt"
  /\ LET parts == Lexemes(ctrl.s.path)
         modname == Join(parts)
         found == FindFile(Files, parts)
     IN /\ ~(modname \in DOMAIN module_cache /\ module_cache[modname] # NilV)
        /\ found # 0
        /\ ~LoadModule(Files[found], Depth(kont)).ok
        /\ module_cache' = (modname :> NilV) @@ module_cache
        /\ IF debug
           THEN /\ heap' = heap
                /\ ctrl' = raise(LoadModule(Files[found], Depth(kont)).msg)
           ELSE /\ heap' = define(heap, environment, parts[Len(parts)], NilV)
                /\ ctrl' = completed
  /\ UNCHANGED <<kont, environment, closures, namespaces, out, debug, pid>>

\* the module ran: its globals become a namespace, cached and bound
\* ImportDone as it would be if the namespace were made of the variables of
\* the importing scope
ImportDoneOfImporter ==
  /\ ctrl.m = "completed" /\ Head(kont).k = "import"
  /\ namespaces' = Append(namespaces, heap[environment].values)
  /\ module_cache' = (Head(kont).modname :> NsV(Len(namespaces) + 1)) @@ module_cache
  /\ heap' = define(heap, environment, Head(kont).last, NsV(Len(namespaces) + 1))
  /\ kont' = Tail(kont)
  /\ ctrl' = completed
  /\ UNCHANGED <<environment, closures, out, debug, pid>>

ImportDone ==
  /\ ctrl.m = "completed" /\ Head(kont).k = "import"
  /\ namespaces' = Append(namespaces, heap[Head(kont).module_env].values)
  /\ module_cache' = (Head(kont).modname :> NsV(Len(namespaces) + 1)) @@ module_cache
  /\ heap' = define(heap, environment, Head(kont).last, NsV(Len(namespaces) + 1))
  /\ kont' = Tail(kont)
  /\ ctrl' = completed
  /\ UNCHANGED <<environment, closures, out, debug, pid>>

\* the handler as it would be if it raised whatever the debug flag
ImportFailRaises ==
  /\ ctrl.m = "raise" /\ Head(kont).k = "import"
  /\ kont' = Tail(kont)
  /\ ctrl' = ctrl
  /\ UNCHANGED <<environment, heap, closures, namespaces, module_cache, out, debug, pid>>

\* except Exception as e, around the load
ImportFail ==
  /\ ctrl.m = "raise" /\ Head(kont).k = "import"
  /\ kont' = Tail(kont)
  /\ IF debug
     THEN /\ ctrl' = ctrl
          /\ UNCHANGED <<heap, module_cache>>
     ELSE /\ module_cache' = (Head(kont).modname :> NilV) @@ module_cache
          /\ heap' = define(heap, environment, Head(kont).last, NilV)
          /\ ctrl' = completed
  /\ UNCHANGED <<environment, closures, namespaces, out, debug, pid>>

\* no file is found: the host's module of that name, or None
ImportHost ==
  /\ ctrl.m = "exec" /\ ctrl.s.k = "ImportStmt"
  /\ LET parts == Lexemes(ctrl.s.path)
         modname == Join(parts)
     IN /\ ~(modname \in DOMAIN module_cache /\ module_cache[modname] # NilV)
        /\ FindFile(Files, parts) = 0
        /\ module_cache' = (modname :> HostImport(parts)) @@ module_cache
        /\ heap' = define(heap, environment, parts[Len(parts)], HostImport(parts))
  /\ ctrl' = completed
  /\ UNCHANGED <<kont, environment, closures, namespaces, out, debug, pid>>

(***************************************************************************)
(* interpret: the statements in order; an exception ends the run.          *)
(***************************************************************************)
InterpretNext ==
  /\ ctrl.m = "completed" /\ Head(kont).k = "interpret" /\ Head(kont).rest # <<>>
  /\ kont' = <<[Head(kont) EXCEPT !.rest = Tail(@)]>> \o Tail(kont)
  /\ ctrl' = exec(Head(Head(kont).rest))
  /\ UNCHANGED <<environment, heap, closures, namespaces, module_cache, out, debug, pid>>

\* return True
InterpretReturn ==
  /\ ctrl.m = "completed" /\ Head(kont).k = "interpret" /\ Head(kont).rest = <<>>
  /\ kont' = Tail(kont)
  /\ ctrl' = [m |-> "returned", v |-> TRUE]
  /\ UNCHANGED <<environment, heap, closures, namespaces, module_cache, out, debug, pid>>

\* the handler as it would be if the loop went on after the message
InterpretExceptResumes ==
  /\ ctrl.m = "raise" /\ Head(kont).k = "interpret"
  /\ out' = Append(out, <<"R","u","n","t","i","m","e"," ","e","r","r","o","r",":"," ">> \o ctrl.exc.msg)
  /\ ctrl' = completed
  /\ UNCHANGED <<kont, environment, heap, closures, namespaces, module_cache, debug, pid>>

\* except Exception as error: re-raised under debug, else printed; return False
InterpretExcept ==
  /\ ctrl.m = "raise" /\ Head(kont).k = "interpret"
  /\ kont' = Tail(kont)
  /\ IF debug
     THEN /\ ctrl' = [m |-> "raised", exc |-> ctrl.exc]
          /\ out' = out
     ELSE /\ ctrl' = [m |-> "returned", v |-> FALSE]
          /\ out' = Append(out, <<"R","u","n","t","i","m","e"," ","e","r","r","o","r",":"," ">> \o ctrl.exc.msg)
  /\ UNCHANGED <<environment, heap, closures, namespaces, module_cache, debug, pid>>

(***************************************************************************)
(* The programs interpreted in a run of the model.  A program is the       *)
(* statement list handed to interpret, written as the tree parser.py       *)
(* builds for the text in the comment above it (tools/ast2tla.py prints    *)
(* it); a try/catch statement, which no text parses to, is written as the  *)
(* TryStmt node itself.                                                    *)
(***************************************************************************)
Program(source) == Compile(source).node

Identifier(lexeme) == Token("IDENTIFIER", lexeme, NilV, 1)

Programs ==
  \* def f() { try { return 1; } catch (e) { print e; } return 2; } print f();
  ("return_in_try" :>
     <<FunctionStmt(Identifier(<<"f">>), <<>>,
                    <<TryStmt(<<Return(Literal(FloatV(1, 1)))>>,
                              Identifier(<<"e">>),
                              List(<<PrintStmt(Variable(Identifier(<<"e">>)))>>)),
                      Return(Literal(FloatV(2, 1)))>>),
       PrintStmt(Call(Variable(Identifier(<<"f">>)), <<>>))>>)
  \* def f() { try { return 1; } return 2; } print f();
  @@ ("return_in_bare_try" :>
     <<FunctionStmt(Identifier(<<"f">>), <<>>,
                    <<TryStmt(<<Return(Literal(FloatV(1, 1)))>>,
                              None,
                              None),
                      Return(Literal(FloatV(2, 1)))>>),
       PrintStmt(Call(Variable(Identifier(<<"f">>)), <<>>))>>)
  \* try { var y = u; print 0; } catch (e) { print e; } print 1;
  @@ ("try_catch" :>
     <<TryStmt(<<VarStmt(Identifier(<<"y">>), Variable(Identifier(<<"u">>)), None),
                 PrintStmt(Literal(FloatV(0, 1)))>>,
               Identifier(<<"e">>),
               List(<<PrintStmt(Variable(Identifier(<<"e">>)))>>)),
       PrintStmt(Literal(FloatV(1, 1)))>>)
  \* try { var y = u; } catch { var y = 0; print y; } print 1;
  @@ ("try_catch_unnamed" :>
     <<TryStmt(<<VarStmt(Identifier(<<"y">>), Variable(Identifier(<<"u">>)), None)>>,
               None,
               List(<<VarStmt(Identifier(<<"y">>), Literal(FloatV(0, 1)), None),
                      PrintStmt(Variable(Identifier(<<"y">>)))>>)),
       PrintStmt(Literal(FloatV(1, 1)))>>)
  \* try { var y = u; } print 1;
  @@ ("try_bare" :>
     <<TryStmt(<<VarStmt(Identifier(<<"y">>), Variable(Identifier(<<"u">>)), None)>>,
               None,
               None),
       PrintStmt(Literal(FloatV(1, 1)))>>)
  \* try { print 0; } catch (e) { print e; } print 1;
  @@ ("try_passed" :>
     <<TryStmt(<<PrintStmt(Literal(FloatV(0, 1)))>>,
               Identifier(<<"e">>),
               List(<<PrintStmt(Variable(Identifier(<<"e">>)))>>)),
       PrintStmt(Literal(FloatV(1, 1)))>>)
  \* the text  try { u } catch (e) { print e } print 1  as the parser reads it
  @@ ("try_source" :>
     Program(<<"t","r","y"," ","{"," ","u"," ","}"," ","c","a","t","c","h"," ","(","e",")"," ","{"," ","p","r","i","n","t"," ","e"," ","}"," ","p","r","i","n","t"," ","1">>))
  \* import a; print a; print 3
  @@ ("cycle" :>
     <<ImportStmt(<<Identifier(<<"a">>)>>),
       PrintStmt(Variable(Identifier(<<"a">>))),
       PrintStmt(Literal(FloatV(3, 1)))>>)
  \* import q; print q; import p; print p
  @@ ("import_unreadable" :>
     <<ImportStmt(<<Identifier(<<"q">>)>>),
       PrintStmt(Variable(Identifier(<<"q">>))),
       ImportStmt(<<Identifier(<<"p">>)>>),
       PrintStmt(Variable(Identifier(<<"p">>)))>>)
  \* import r; print r
  @@ ("import_failing" :>
     <<ImportStmt(<<Identifier(<<"r">>)>>),
       PrintStmt(Variable(Identifier(<<"r">>)))>>)
  \* import zz; print zz; zz(); print 1
  @@ ("import_missing" :>
     <<ImportStmt(<<Identifier(<<"z","z">>)>>),
       PrintStmt(Variable(Identifier(<<"z","z">>))),
       ExpressionStmt(Call(Variable(Identifier(<<"z","z">>)), <<>>)),
       PrintStmt(Literal(FloatV(1, 1)))>>)
  \* import pyspigot.Bukkit; print Bukkit.getName(); print Bukkit.x
  @@ ("import_host" :>
     <<ImportStmt(<<Identifier(<<"p","y","s","p","i","g","o","t">>), Identifier(<<"B","u","k","k","i","t">>)>>),
       PrintStmt(Call(Get(Variable(Identifier(<<"B","u","k","k","i","t">>)), Identifier(<<"g","e","t","N","a","m","e">>)), <<>>)),
       PrintStmt(Get(Variable(Identifier(<<"B","u","k","k","i","t">>)), Identifier(<<"x">>)))>>)
  \* import m; print m.f(); import m; print m.v; print m.f(); import k.n; print n.w
  @@ ("import_module" :>
     <<ImportStmt(<<Identifier(<<"m">>)>>),
       PrintStmt(Call(Get(Variable(Identifier(<<"m">>)), Identifier(<<"f">>)), <<>>)),
       ImportStmt(<<Identifier(<<"m">>)>>),
       PrintStmt(Get(Variable(Identifier(<<"m">>)), Identifier(<<"v">>))),
       PrintStmt(Call(Get(Variable(Identifier(<<"m">>)), Identifier(<<"f">>)), <<>>)),
       ImportStmt(<<Identifier(<<"k">>), Identifier(<<"n">>)>>),
       PrintStmt(Get(Variable(Identifier(<<"n">>)), Identifier(<<"w">>)))>>)
  \* def f(a) { var l = a; if (a < 2) { f(a + 1); } print l; } f(1);
  @@ ("recursion" :>
     <<FunctionStmt(Identifier(<<"f">>), <<Identifier(<<"a">>)>>,
                    <<VarStmt(Identifier(<<"l">>), Variable(Identifier(<<"a">>)), None),
                      IfStmt(Binary(Variable(Identifier(<<"a">>)), Token("LESS", <<"<">>, NilV, 1), Literal(FloatV(2, 1))),
                             BlockStmt(<<ExpressionStmt(Call(Variable(Identifier(<<"f">>)), <<Binary(Variable(Identifier(<<"a">>)), Token("PLUS", <<"+">>, NilV, 1), Literal(FloatV(1, 1)))>>))>>),
                             None),
                      PrintStmt(Variable(Identifier(<<"l">>)))>>),
       ExpressionStmt(Call(Variable(Identifier(<<"f">>)), <<Literal(FloatV(1, 1))>>))>>)
  \* def g(a) { var t = a; return t; } print g(1); print g(2)
  @@ ("sequential" :>
     <<FunctionStmt(Identifier(<<"g">>), <<Identifier(<<"a">>)>>,
                    <<VarStmt(Identifier(<<"t">>), Variable(Identifier(<<"a">>)), None),
                      Return(Variable(Identifier(<<"t">>)))>>),
       PrintStmt(Call(Variable(Identifier(<<"g">>)), <<Literal(FloatV(1, 1))>>)),
       PrintStmt(Call(Variable(Identifier(<<"g">>)), <<Literal(FloatV(2, 1))>>))>>)
  \* var x = 1; { var x = 2; var y = 3; print x; } print x; print y;
  @@ ("block_scope" :>
     <<VarStmt(Identifier(<<"x">>), Literal(FloatV(1, 1)), None),
       BlockStmt(<<VarStmt(Identifier(<<"x">>), Literal(FloatV(2, 1)), None),
                   VarStmt(Identifier(<<"y">>), Literal(FloatV(3, 1)), None),
                   PrintStmt(Variable(Identifier(<<"x">>)))>>),
       PrintStmt(Variable(Identifier(<<"x">>))),
       PrintStmt(Variable(Identifier(<<"y">>)))>>)
  \* def mk(c) { def inc() { c = c + 1; return c; } return inc; } var f = mk(0); print f(); print f()
  @@ ("counter" :>
     <<FunctionStmt(Identifier(<<"m","k">>), <<Identifier(<<"c">>)>>,
                    <<FunctionStmt(Identifier(<<"i","n","c">>), <<>>,
                                   <<ExpressionStmt(Assign(Identifier(<<"c">>), Binary(Variable(Identifier(<<"c">>)), Token("PLUS", <<"+">>, NilV, 1), Literal(FloatV(1, 1))))),
                                     Return(Variable(Identifier(<<"c">>)))>>),
                      Return(Variable(Identifier(<<"i","n","c">>)))>>),
       VarStmt(Identifier(<<"f">>), Call(Variable(Identifier(<<"m","k">>)), <<Literal(FloatV(0, 1))>>), None),
       PrintStmt(Call(Variable(Identifier(<<"f">>)), <<>>)),
       PrintStmt(Call(Variable(Identifier(<<"f">>)), <<>>))>>)
  \* var x = 1; { z = 5 } print x
  @@ ("assign_undefined" :>
     <<VarStmt(Identifier(<<"x">>), Literal(FloatV(1, 1)), None),
       BlockStmt(<<ExpressionStmt(Assign(Identifier(<<"z">>), Literal(FloatV(5, 1))))>>),
       PrintStmt(Variable(Identifier(<<"x">>)))>>)
  \* def f() { var x = 1; { z = x } } f(); print 1
  @@ ("assign_in_call" :>
     <<FunctionStmt(Identifier(<<"f">>), <<>>,
                    <<VarStmt(Identifier(<<"x">>), Literal(FloatV(1, 1)), None),
                      BlockStmt(<<ExpressionStmt(Assign(Identifier(<<"z">>), Variable(Identifier(<<"x">>))))>>)>>),
       ExpressionStmt(Call(Variable(Identifier(<<"f">>)), <<>>)),
       PrintStmt(Literal(FloatV(1, 1)))>>)
  \* var int n = "41"; n = "5"; print n + 1; n = "x"; print n
  @@ ("assign_typed" :>
     <<VarStmt(Identifier(<<"n">>), Literal(StrV(<<"4","1">>)), Identifier(<<"i","n","t">>)),
       ExpressionStmt(Assign(Identifier(<<"n">>), Literal(StrV(<<"5">>)))),
       PrintStmt(Binary(Variable(Identifier(<<"n">>)), Token("PLUS", <<"+">>, NilV, 1), Literal(FloatV(1, 1)))),
       ExpressionStmt(Assign(Identifier(<<"n">>), Literal(StrV(<<"x">>)))),
       PrintStmt(Variable(Identifier(<<"n">>)))>>)
  \* print 1; return 7; print 2
  @@ ("top_return" :>
     <<PrintStmt(Literal(FloatV(1, 1))),
       Return(Literal(FloatV(7, 1))),
       PrintStmt(Literal(FloatV(2, 1)))>>)
  \* def p(x) { print x; return x; } def f(a, b) { print a; print b; } def g() { print 0; return f; } print f(p(1)); g()(p(1), p(2), p(3))
  @@ ("call_args" :>
     <<FunctionStmt(Identifier(<<"p">>), <<Identifier(<<"x">>)>>,
                    <<PrintStmt(Variable(Identifier(<<"x">>))),
                      Return(Variable(Identifier(<<"x">>)))>>),
       FunctionStmt(Identifier(<<"f">>), <<Identifier(<<"a">>), Identifier(<<"b">>)>>,
                    <<PrintStmt(Variable(Identifier(<<"a">>))),
                      PrintStmt(Variable(Identifier(<<"b">>)))>>),
       FunctionStmt(Identifier(<<"g">>), <<>>,
                    <<PrintStmt(Literal(FloatV(0, 1))),
                      Return(Variable(Identifier(<<"f">>)))>>),
       PrintStmt(Call(Variable(Identifier(<<"f">>)), <<Call(Variable(Identifier(<<"p">>)), <<Literal(FloatV(1, 1))>>)>>)),
       ExpressionStmt(Call(Call(Variable(Identifier(<<"g">>)), <<>>), <<Call(Variable(Identifier(<<"p">>)), <<Literal(FloatV(1, 1))>>),
                             Call(Variable(Identifier(<<"p">>)), <<Literal(FloatV(2, 1))>>),
                             Call(Variable(Identifier(<<"p">>)), <<Literal(FloatV(3, 1))>>)>>))>>)
  \* var i = 0; while (i < 2) { i = i + 1 } for (var j = 0; j < 2; j = j + 1) print j; if (!(i == 2)) print 0; else print -i; if (nil) print 0
  @@ ("loops" :>
     <<VarStmt(Identifier(<<"i">>), Literal(FloatV(0, 1)), None),
       WhileStmt(Binary(Variable(Identifier(<<"i">>)), Token("LESS", <<"<">>, NilV, 1), Literal(FloatV(2, 1))),
                 BlockStmt(<<ExpressionStmt(Assign(Identifier(<<"i">>), Binary(Variable(Identifier(<<"i">>)), Token("PLUS", <<"+">>, NilV, 1), Literal(FloatV(1, 1)))))>>)),
       BlockStmt(<<VarStmt(Identifier(<<"j">>), Literal(FloatV(0, 1)), None),
                   WhileStmt(Binary(Variable(Identifier(<<"j">>)), Token("LESS", <<"<">>, NilV, 1), Literal(FloatV(2, 1))),
                             BlockStmt(<<PrintStmt(Variable(Identifier(<<"j">>))),
                                         ExpressionStmt(Assign(Identifier(<<"j">>), Binary(Variable(Identifier(<<"j">>)), Token("PLUS", <<"+">>, NilV, 1), Literal(FloatV(1, 1)))))>>))>>),
       IfStmt(Unary(Token("BANG", <<"!">>, NilV, 1), Grouping(Binary(Variable(Identifier(<<"i">>)), Token("EQUAL_EQUAL", <<"=","=">>, NilV, 1), Literal(FloatV(2, 1))))),
              PrintStmt(Literal(FloatV(0, 1))),
              PrintStmt(Unary(Token("MINUS", <<"-">>, NilV, 1), Variable(Identifier(<<"i">>))))),
       IfStmt(Literal(NilV),
              PrintStmt(Literal(FloatV(0, 1))),
              None)>>)
  \* sleep(0); var a = input("?"); print a
  @@ ("host" :>
     <<ExpressionStmt(Call(Variable(Identifier(<<"s","l","e","e","p">>)), <<Literal(FloatV(0, 1))>>)),
       VarStmt(Identifier(<<"a">>), Call(Variable(Identifier(<<"i","n","p","u","t">>)), <<Literal(StrV(<<"?">>))>>), None),
       PrintStmt(Variable(Identifier(<<"a">>)))>>)
  \* def r() { r() } r(); print 1
  @@ ("overflow" :>
     <<FunctionStmt(Identifier(<<"r">>), <<>>,
                    <<ExpressionStmt(Call(Variable(Identifier(<<"r">>)), <<>>))>>),
       ExpressionStmt(Call(Variable(Identifier(<<"r">>)), <<>>)),
       PrintStmt(Literal(FloatV(1, 1)))>>)
  \* def w() { while (true) { return 1 } } print w(); def h() { while (true) { { return u } } } h()
  @@ ("unwinding" :>
     <<FunctionStmt(Identifier(<<"w">>), <<>>,
                    <<WhileStmt(Literal(BoolV(TRUE)),
                                BlockStmt(<<Return(Literal(FloatV(1, 1)))>>))>>),
       PrintStmt(Call(Variable(Identifier(<<"w">>)), <<>>)),
       FunctionStmt(Identifier(<<"h">>), <<>>,
                    <<WhileStmt(Literal(BoolV(TRUE)),
                                BlockStmt(<<BlockStmt(<<Return(Variable(Identifier(<<"u">>)))>>)>>))>>),
       ExpressionStmt(Call(Variable(Identifier(<<"h">>)), <<>>))>>)
  \* var s = 1; print s.x
  @@ ("attribute" :>
     <<VarStmt(Identifier(<<"s">>), Literal(FloatV(1, 1)), None),
       PrintStmt(Get(Variable(Identifier(<<"s">>)), Identifier(<<"x">>)))>>)
  \* the text  var count int = "7"; print count;  as the parser reads it
  @@ ("var_count_int" :>
     Program(<<"v","a","r"," ","c","o","u","n","t"," ","i","n","t"," ","="," ","\"","7","\"",";"," ","p","r","i","n","t"," ","c","o","u","n","t",";">>))
  \* the text  var int count = "7"; print count;  as the parser reads it
  @@ ("var_int_count" :>
     Program(<<"v","a","r"," ","i","n","t"," ","c","o","u","n","t"," ","="," ","\"","7","\"",";"," ","p","r","i","n","t"," ","c","o","u","n","t",";">>))
  \* the text  for (var i = 0; i < 3; i = i + 1) { print i; }  as the parser reads it
  @@ ("for_loop" :>
     Program(<<"f","o","r"," ","(","v","a","r"," ","i"," ","="," ","0",";"," ","i"," ","<"," ","3",";"," ","i"," ","="," ","i"," ","+"," ","1",")"," ","{"," ","p","r","i","n","t"," ","i",";"," ","}">>))
  \* def f() { try { return 1; } catch (e) { return 3; } return 2; } print f(); try { print u; } catch (e) { { print v; } } print 4;
  @@ ("catch_exits" :>
     <<FunctionStmt(Identifier(<<"f">>), <<>>,
                    <<TryStmt(<<Return(Literal(FloatV(1, 1)))>>,
                              Identifier(<<"e">>),
                              List(<<Return(Literal(FloatV(3, 1)))>>)),
                      Return(Literal(FloatV(2, 1)))>>),
       PrintStmt(Call(Variable(Identifier(<<"f">>)), <<>>)),
       TryStmt(<<PrintStmt(Variable(Identifier(<<"u">>)))>>,
               Identifier(<<"e">>),
               List(<<BlockStmt(<<PrintStmt(Variable(Identifier(<<"v">>)))>>)>>)),
       PrintStmt(Literal(FloatV(4, 1)))>>)
  \* import zz; import zz; print zz
  @@ ("import_missing_twice" :>
     <<ImportStmt(<<Identifier(<<"z","z">>)>>),
       ImportStmt(<<Identifier(<<"z","z">>)>>),
       PrintStmt(Variable(Identifier(<<"z","z">>)))>>)
  \* var g = 1; { var g = 2; import s; print g; print s.w; } print g;
  @@ ("import_scope" :>
     <<VarStmt(Identifier(<<"g">>), Literal(FloatV(1, 1)), None),
       BlockStmt(<<VarStmt(Identifier(<<"g">>), Literal(FloatV(2, 1)), None),
                   ImportStmt(<<Identifier(<<"s">>)>>),
                   PrintStmt(Variable(Identifier(<<"g">>))),
                   PrintStmt(Get(Variable(Identifier(<<"s">>)), Identifier(<<"w">>)))>>),
       PrintStmt(Variable(Identifier(<<"g">>)))>>)

(***************************************************************************)
(* Interpreter(debug) and a call of interpret(statements).                 *)
(***************************************************************************)
Init ==
  /\ pid \in DOMAIN Programs
  /\ debug \in BOOLEAN
  /\ heap = <<[Environment(0) EXCEPT
                 !.values = (<<"i","n","p","u","t">> :> HostV(1)) @@ (<<"s","l","e","e","p">> :> HostV(2))]>>
  /\ environment = 1
  /\ closures = <<>>
  /\ namespaces = <<>>
  /\ module_cache = <<>>
  /\ out = <<>>
  /\ kont = <<[k |-> "interpret", rest |-> Programs[pid]]>>
  /\ ctrl = completed

Next ==
  \/ ExecExpressionStmt \/ ExpressionStmtDone \/ ExecPrintStmt \/ PrintStmtDone
  \/ ExecVarStmt \/ VarStmtDefine
  \/ ExecBlockStmt \/ BlockNext \/ BlockExit \/ BlockUnwind
  \/ ExecIfStmt \/ IfStmtBranch \/ ExecWhileStmt \/ WhileStmtTest \/ WhileStmtLoop
  \/ ExecFunctionStmt
  \/ ExecTryStmt \/ TryStmtDone \/ TryStmtCatch \/ TryStmtReraise
  \/ ExecReturn \/ ReturnRaise
  \/ EvalLiteral \/ EvalGrouping \/ EvalUnary \/ UnaryApply
  \/ EvalBinary \/ BinaryRight \/ BinaryApply \/ EvalVariable
  \/ EvalGet \/ GetApply \/ EvalAssign \/ AssignApply
  \/ EvalCall \/ CallCallee \/ CallArgument \/ CallArgumentDone
  \/ CallFunction \/ CallRecursionError \/ CallReturn \/ CallFallThrough
  \/ CallHost \/ CallInput \/ CallNotCallable \/ Propagate
  \/ ImportCached \/ ImportLoad \/ ImportLoadFail \/ ImportDone \/ ImportFail
  \/ ImportHost
  \/ InterpretNext \/ InterpretReturn \/ InterpretExcept

Spec == Init /\ [][Next]_vars

(***************************************************************************)
(* compiler.py: the Python text of an expression, of a statement (a list   *)
(* of lines) and of a program, built as the Compiler builds it.  The one   *)
(* attribute of a Compiler is needs_time: compile_call sets it when the    *)
(* text of a callee is sleep, and nothing clears it.                       *)
(***************************************************************************)
BinarySymbols ==
  ("PLUS" :> <<"+">>) @@ ("MINUS" :> <<"-">>) @@ ("STAR" :> <<"*">>) @@ ("SLASH" :> <<"/">>)
    @@ ("EQUAL_EQUAL" :> <<"=","=">>) @@ ("BANG_EQUAL" :> <<"!","=">>) @@ ("LESS" :> <<"<">>)
    @@ ("LESS_EQUAL" :> <<"<","=">>) @@ ("GREATER" :> <<">">>) @@ ("GREATER_EQUAL" :> <<">","=">>)

\* separator.join(texts)
RECURSIVE JoinWith(_, _)
JoinWith(separator, texts) ==
  IF texts = <<>> THEN <<>>
  ELSE IF Len(texts) = 1 THEN texts[1]
  ELSE texts[1] \o separator \o JoinWith(separator, Tail(texts))

RECURSIVE compile_expr(_)
compile_call(expr) ==
  LET callee == compile_expr(expr.callee)
      args == JoinWith(<<","," ">>, [i \in 1..Len(expr.arguments) |-> compile_expr(expr.arguments[i])])
  IN IF callee = <<"s","l","e","e","p">> THEN <<"t","i","m","e",".","s","l","e","e","p","(">> \o args \o <<")">>
     ELSE callee \o <<"(">> \o args \o <<")">>

compile_expr(expr) ==
  CASE expr.k = "Binary" ->
         <<"(">> \o compile_expr(expr.left) \o <<" ">> \o BinarySymbols[expr.operator.type]
           \o <<" ">> \o compile_expr(expr.right) \o <<")">>
    [] expr.k = "Grouping" -> <<"(">> \o compile_expr(expr.expression) \o <<")">>
    [] expr.k = "Literal" ->
         IF expr.value.t = "nil" THEN <<"N","o","n","e">>
         ELSE IF expr.value.t = "str" THEN Repr(expr.value)
         ELSE Str(expr.value)
    [] expr.k = "Unary" ->
         IF expr.operator.type = "MINUS" THEN <<"(","-">> \o compile_expr(expr.right) \o <<")">>
         ELSE <<"(","n","o","t"," ">> \o compile_expr(expr.right) \o <<")">>
    [] expr.k = "Variable" -> expr.name.lexeme
    [] expr.k = "Get" -> compile_expr(expr.object) \o <<".">> \o expr.name.lexeme
    [] expr.k = "Call" -> compile_call(expr)
    [] expr.k = "Assign" ->
         compile_expr(expr.value) \o <<";"," ">> \o expr.name.lexeme \o <<" ","="," ">>
           \o compile_expr(expr.value) \o <<";"," ">> \o expr.name.lexeme

\* compile_expr(expr) sets self.needs_time: one of the calls of compile_call
\* it makes finds the text sleep for the callee
RECURSIVE sets_needs_time(_)
sets_needs_time(expr) ==
  CASE expr.k = "Binary" -> sets_needs_time(expr.left) \/ sets_needs_time(expr.right)
    [] expr.k = "Grouping" -> sets_needs_time(expr.expression)
    [] expr.k = "Unary" -> sets_needs_time(expr.right)
    [] expr.k = "Get" -> sets_needs_time(expr.object)
    [] expr.k = "Call" ->
         \/ compile_expr(expr.callee) = <<"s","l","e","e","p">>
         \/ sets_needs_time(expr.callee)
         \/ \E i \in 1..Len(expr.arguments) : sets_needs_time(expr.arguments[i])
    [] expr.k = "Assign" -> sets_needs_time(expr.value)
    [] OTHER -> FALSE

indent_lines(lines) == [i \in 1..Len(lines) |-> <<" "," "," "," ">> \o lines[i]]

\* the lines of a statement; compile_stmts is the loop that extends the
\* lines by those of each statement of a list
RECURSIVE compile_stmt(_), compile_stmts(_)
compile_stmt_block(stmt) ==
  IF stmt.k = "BlockStmt" THEN compile_stmts(stmt.statements) ELSE compile_stmt(stmt)

compile_stmt(stmt) ==
  CASE stmt.k = "ImportStmt" -> <<<<"i","m","p","o","r","t"," ">> \o Join(Lexemes(stmt.path))>>
    [] stmt.k = "PrintStmt" -> <<<<"p","r","i","n","t","(">> \o compile_expr(stmt.expression) \o <<")">>>>
    [] stmt.k = "VarStmt" ->
         IF stmt.initializer # None
         THEN <<stmt.name.lexeme \o <<" ","="," ">> \o compile_expr(stmt.initializer)>>
         ELSE <<stmt.name.lexeme \o <<" ","="," ","N","o","n","e">>>>
    [] stmt.k = "ExpressionStmt" -> <<compile_expr(stmt.expression)>>
    [] stmt.k = "BlockStmt" -> compile_stmts(stmt.statements)
    [] stmt.k = "IfStmt" ->
         <<<<"i","f"," ">> \o compile_expr(stmt.condition) \o <<":">>>>
           \o indent_lines(compile_stmt_block(stmt.then_branch))
           \o (IF stmt.else_branch # None
               THEN <<<<"e","l","s","e",":">>>> \o indent_lines(compile_stmt_block(stmt.else_branch))
               ELSE <<>>)
    [] stmt.k = "WhileStmt" ->
         <<<<"w","h","i","l","e"," ">> \o compile_expr(stmt.condition) \o <<":">>>>
           \o indent_lines(compile_stmt_block(stmt.body))
    [] stmt.k = "FunctionStmt" ->
         <<<<"d","e","f"," ">> \o stmt.name.lexeme \o <<"(">> \o JoinWith(<<","," ">>, Lexemes(stmt.params)) \o <<")",":">>>>
           \o indent_lines(IF compile_stmts(stmt.body) = <<>> THEN <<<<"p","a","s","s">>>>
                           ELSE compile_stmts(stmt.body))
    [] stmt.k = "Return" ->
         IF stmt.value = None THEN <<<<"r","e","t","u","r","n">>>>
         ELSE <<<<"r","e","t","u","r","n"," ">> \o compile_expr(stmt.value)>>

compile_stmts(statements) ==
  IF statements = <<>> THEN <<>>
  ELSE compile_stmt(Head(statements)) \o compile_stmts(Tail(statements))

\* compile_stmt(stmt) sets self.needs_time
RECURSIVE stmt_sets_needs_time(_)
stmt_sets_needs_time(stmt) ==
  CASE stmt.k \in {"PrintStmt", "ExpressionStmt"} -> sets_needs_time(stmt.expression)
    [] stmt.k = "VarStmt" -> stmt.initializer # None /\ sets_needs_time(stmt.initializer)
    [] stmt.k = "BlockStmt" ->
         \E i \in 1..Len(stmt.statements) : stmt_sets_needs_time(stmt.statements[i])
    [] stmt.k = "IfStmt" ->
         \/ sets_needs_time(stmt.condition)
         \/ stmt_sets_needs_time(stmt.then_branch)
         \/ stmt.else_branch # None /\ stmt_sets_needs_time(stmt.else_branch)
    [] stmt.k = "WhileStmt" -> sets_needs_time(stmt.condition) \/ stmt_sets_needs_time(stmt.body)
    [] stmt.k = "FunctionStmt" -> \E i \in 1..Len(stmt.body) : stmt_sets_needs_time(stmt.body[i])
    [] stmt.k = "Return" -> stmt.value # None /\ sets_needs_time(stmt.value)
    [] OTHER -> FALSE

\* self.compile_program(statements) of a Compiler whose needs_time is
\* self_needs_time: the text returned, and needs_time as the call leaves it
compile_program(self_needs_time, statements) ==
  LET needs_time == self_needs_time
                      \/ \E i \in 1..Len(statements) : stmt_sets_needs_time(statements[i])
      lines == compile_stmts(statements)
  IN [text |-> JoinWith(<<"\n">>, IF needs_time THEN <<<<"i","m","p","o","r","t"," ","t","i","m","e">>>> \o lines ELSE lines),
      needs_time |-> needs_time]

\* run_file, mode compile: the text handed to exec, compiled by a new
\* Compiler
python_code(statements) ==
  IF Len(statements) = 1 /\ statements[1].k = "ExpressionStmt"
  THEN <<"p","r","i","n","t","(">> \o compile_expr(statements[1].expression) \o <<")">>
  ELSE compile_program(FALSE, statements).text

(***************************************************************************)
(* exec(python_code, namespace) of run_file: the Python the compiled text  *)
(* is run by, for the text compile_expr writes from literals, names,       *)
(* operators, groupings and assignments: every operation is parenthesised, *)
(* a line is a list of simple statements print(e), name = e or e, with a   *)
(* semicolon between them.  A value is the result [ok, v, msg] of the      *)
(* operators above; ns is the namespace, the value of each name bound.     *)
(***************************************************************************)
\* the characters of code 32 to 126 but 96, in the order of their codes
CodePoints == <<" ","!","\"","#","$","%","&","'","(",")","*","+",",","-",".","/","0","1","2","3","4","5","6","7","8","9",":",";","<","=",">","?","@","A","B","C","D","E","F","G","H","I","J","K","L","M","N","O","P","Q","R","S","T","U","V","W","X","Y","Z","[","\\","]","^","_","a","b","c","d","e","f","g","h","i","j","k","l","m","n","o","p","q","r","s","t","u","v","w","x","y","z","{","|","}","~">>

Place(c) == CHOOSE i \in 1..Len(CodePoints) : CodePoints[i] = c

ord(c) == IF Place(c) =< 64 THEN 31 + Place(c) ELSE 32 + Place(c)

\* a < b of two str
RECURSIVE StrLess(_, _)
StrLess(a, b) ==
  IF b = <<>> THEN FALSE
  ELSE IF a = <<>> THEN TRUE
  ELSE IF Head(a) # Head(b) THEN ord(Head(a)) < ord(Head(b))
  ELSE StrLess(Tail(a), Tail(b))

\* s * n of a str and an int
RECURSIVE Repeat(_, _)
Repeat(s, n) == IF n =< 0 THEN <<>> ELSE s \o Repeat(s, n - 1)

Unsupported(op, a, b) ==
  Err(<<"u","n","s","u","p","p","o","r","t","e","d"," ","o","p","e","r","a","n","d"," ","t","y","p","e","(","s",")"," ","f","o","r"," ">> \o op \o <<":"," ","'">> \o TypeName(a) \o <<"'"," ","a","n","d"," ","'">>
        \o TypeName(b) \o <<"'">>)

\* a <op> b of Python, op the operator as the text has it
PyBinary(op, a, b) ==
  CASE op = <<"=","=">> -> Ok(BoolV(PyEq(a, b, <<>>)))
    [] op = <<"!","=">> -> Ok(BoolV(~PyEq(a, b, <<>>)))
    [] op \in {<<"<">>, <<"<","=">>, <<">">>, <<">","=">>} ->
         IF IsNumber(a) /\ IsNumber(b)
         THEN Ok(BoolV(CASE op = <<"<">> -> PyLess(a, b)
                         [] op = <<"<","=">> -> PyLess(a, b) \/ PyEq(a, b, <<>>)
                         [] op = <<">">> -> PyLess(b, a)
                         [] OTHER -> PyLess(b, a) \/ PyEq(a, b, <<>>)))
         ELSE IF a.t = "str" /\ b.t = "str"
         THEN Ok(BoolV(CASE op = <<"<">> -> StrLess(a.s, b.s)
                         [] op = <<"<","=">> -> ~StrLess(b.s, a.s)
                         [] op = <<">">> -> StrLess(b.s, a.s)
                         [] OTHER -> ~StrLess(a.s, b.s)))
         ELSE Err(<<"'">> \o op \o <<"'"," ","n","o","t"," ","s","u","p","p","o","r","t","e","d"," ","b","e","t","w","e","e","n"," ","i","n","s","t","a","n","c","e","s"," ","o","f"," ","'">> \o TypeName(a)
                    \o <<"'"," ","a","n","d"," ","'">> \o TypeName(b) \o <<"'">>)
    [] op = <<"+">> ->
         IF IsNumber(a) /\ IsNumber(b) THEN Ok(PyAdd(a, b))
         ELSE IF a.t = "str" /\ b.t = "str" THEN Ok(StrV(a.s \o b.s))
         ELSE IF a.t = "str"
         THEN Err(<<"c","a","n"," ","o","n","l","y"," ","c","o","n","c","a","t","e","n","a","t","e"," ","s","t","r"," ","(","n","o","t"," ","\"">> \o TypeName(b) \o <<"\"",")"," ","t","o"," ","s","t","r">>)
         ELSE Unsupported(op, a, b)
    [] op = <<"-">> ->
         IF IsNumber(a) /\ IsNumber(b)
         THEN Ok(PyAdd(a, [b EXCEPT !.n = -b.n]))
         ELSE Unsupported(op, a, b)
    [] op = <<"*">> ->
         IF IsNumber(a) /\ IsNumber(b)
         THEN Ok(IF a.t = "float" \/ b.t = "float" THEN FloatV(a.n * b.n, a.d * b.d)
                 ELSE IntV(a.n * b.n))
         ELSE IF a.t = "str" /\ b.t \in {"bool", "int"} THEN Ok(StrV(Repeat(a.s, b.n)))
         ELSE IF b.t = "str" /\ a.t \in {"bool", "int"} THEN Ok(StrV(Repeat(b.s, a.n)))
         ELSE IF a.t = "str"
         THEN Err(<<"c","a","n","'","t"," ","m","u","l","t","i","p","l","y"," ","s","e","q","u","e","n","c","e"," ","b","y"," ","n","o","n","-","i","n","t"," ","o","f"," ","t","y","p","e"," ","'">> \o TypeName(b) \o <<"'">>)
         ELSE IF b.t = "str"
         THEN Err(<<"c","a","n","'","t"," ","m","u","l","t","i","p","l","y"," ","s","e","q","u","e","n","c","e"," ","b","y"," ","n","o","n","-","i","n","t"," ","o","f"," ","t","y","p","e"," ","'">> \o TypeName(a) \o <<"'">>)
         ELSE Unsupported(op, a, b)
    [] op = <<"/">> ->
         IF IsNumber(a) /\ IsNumber(b)
         THEN IF b.n # 0 \/ b.d = 0 THEN Ok(PyDiv(a, b))
              ELSE IF a.t = "float" \/ b.t = "float" THEN Err(<<"f","l","o","a","t"," ","d","i","v","i","s","i","o","n"," ","b","y"," ","z","e","r","o">>)
              ELSE Err(<<"d","i","v","i","s","i","o","n"," ","b","y"," ","z","e","r","o">>)
         ELSE Unsupported(op, a, b)

\* -a and not a of Python
PyUnary(op, a) ==
  IF op = <<"n","o","t"," ">> THEN Ok(BoolV(~PyBool(a)))
  ELSE IF a.t = "float" THEN Ok(FloatV(-a.n, a.d))
  ELSE IF IsNumber(a) THEN Ok(IntV(-a.n))
  ELSE Err(<<"b","a","d"," ","o","p","e","r","a","n","d"," ","t","y","p","e"," ","f","o","r"," ","u","n","a","r","y"," ","-",":"," ","'">> \o TypeName(a) \o <<"'">>)

\* a result, and the place in the text after the expression
At(r, i) == [ok |-> r.ok, v |-> r.v, msg |-> r.msg, i |-> i]

\* the str whose repr starts at text[i - 1], a quote q: the characters up to
\* the closing quote, and the place after it
RECURSIVE PyStr(_, _, _, _)
PyStr(text, i, q, s) ==
  IF text[i] = q THEN At(Ok(StrV(s)), i + 1)
  ELSE IF text[i] = "\\"
  THEN PyStr(text, i + 2, q, Append(s, IF text[i + 1] = "n" THEN "\n" ELSE text[i + 1]))
  ELSE PyStr(text, i + 1, q, Append(s, text[i]))

Starts(text, i, word) ==
  i + Len(word) - 1 =< Len(text) /\ SubSeq(text, i, i + Len(word) - 1) = word

\* the end of the float literal that starts at text[i]
RECURSIVE PyNumberEnd(_, _)
PyNumberEnd(text, i) ==
  IF i =< Len(text) /\ (IsDigit(text[i]) \/ text[i] = ".") THEN PyNumberEnd(text, i + 1)
  ELSE i

\* the float literal text[i .. e - 1]
PyNumber(text, i, e, p) == At(Ok(FloatV(p.n, p.d)), e)

PyUnaryAt(op, r) == IF r.ok THEN At(PyUnary(op, r.v), r.i + 1) ELSE r

PyBinaryAt(op, l, r) == IF r.ok THEN At(PyBinary(op, l.v, r.v), r.i + 1) ELSE r

\* the end of the name that starts at text[i]
RECURSIVE PyNameEnd(_, _)
PyNameEnd(text, i) ==
  IF i =< Len(text) /\ IsIdentifierPart(text[i]) THEN PyNameEnd(text, i + 1) ELSE i

\* the value of the name text[i .. e - 1]
PyName(name, e, ns) ==
  IF name = <<"N","o","n","e">> THEN At(Ok(NilV), e)
  ELSE IF name = <<"T","r","u","e">> THEN At(Ok(BoolV(TRUE)), e)
  ELSE IF name = <<"F","a","l","s","e">> THEN At(Ok(BoolV(FALSE)), e)
  ELSE IF name \in DOMAIN ns THEN At(Ok(ns[name]), e)
  ELSE At(Err(<<"n","a","m","e"," ","'">> \o name \o <<"'"," ","i","s"," ","n","o","t"," ","d","e","f","i","n","e","d">>), e)

\* the value of the expression that starts at text[i]; PyOperation is the
\* rest of a parenthesis whose first operand was l
RECURSIVE PyEval(_, _, _), PyOperation(_, _, _, _)
PyEval(text, i, ns) ==
  IF text[i] = "("
  THEN IF text[i + 1] = "-" THEN PyUnaryAt(<<"-">>, PyEval(text, i + 2, ns))
       ELSE IF Starts(text, i + 1, <<"n","o","t"," ">>) THEN PyUnaryAt(<<"n","o","t"," ">>, PyEval(text, i + 5, ns))
       ELSE PyOperation(text, PyEval(text, i + 1, ns), 0, ns)
  ELSE IF text[i] \in {"'", "\""} THEN PyStr(text, i + 1, text[i], <<>>)
  ELSE IF IsAlpha(text[i]) THEN PyName(SubSeq(text, i, PyNameEnd(text, i) - 1), PyNameEnd(text, i), ns)
  ELSE PyNumber(text, i, PyNumberEnd(text, i),
                ParseFloat(SubSeq(text, i, PyNumberEnd(text, i) - 1)))

PyOperation(text, l, n, ns) ==
  IF ~l.ok THEN l
  ELSE IF text[l.i] = ")" THEN At(l, l.i + 1)
  ELSE IF n = 0 THEN PyOperation(text, l, IF text[l.i + 2] = " " THEN 1 ELSE 2, ns)
  ELSE PyBinaryAt(SubSeq(text, l.i + 1, l.i + n), l, PyEval(text, l.i + n + 2, ns))

\* the place of the next simple statement, after the one that ends before
\* text[i]: past a semicolon and a space, or past a line break
PyNext(text, i) == IF Starts(text, i, <<";"," ">>) THEN i + 2 ELSE i + 1

\* the simple statements from text[i] on, run in order: what they print, and
\* the message of the exception that ends them
RECURSIVE PyExec(_, _, _, _)
PyLine(text, r, printed, shown, ns) ==
  IF ~r.ok THEN [ok |-> FALSE, out |-> printed, msg |-> r.msg]
  ELSE IF shown THEN PyExec(text, PyNext(text, r.i + 1), Append(printed, Str(r.v)), ns)
  ELSE PyExec(text, PyNext(text, r.i), printed, ns)

\* name = e
PyAssign(text, name, r, printed, ns) ==
  IF ~r.ok THEN [ok |-> FALSE, out |-> printed, msg |-> r.msg]
  ELSE PyExec(text, PyNext(text, r.i), printed,
              [n \in DOMAIN ns \cup {name} |-> IF n = name THEN r.v ELSE ns[n]])

PyExec(text, i, printed, ns) ==
  IF i > Len(text) THEN [ok |-> TRUE, out |-> printed, msg |-> <<>>]
  ELSE IF Starts(text, i, <<"p","r","i","n","t","(">>) THEN PyLine(text, PyEval(text, i + 6, ns), printed, TRUE, ns)
  ELSE IF IsAlpha(text[i]) /\ Starts(text, PyNameEnd(text, i), <<" ","="," ">>)
  THEN PyAssign(text, SubSeq(text, i, PyNameEnd(text, i) - 1),
                PyEval(text, PyNameEnd(text, i) + 3, ns), printed, ns)
  ELSE PyLine(text, PyEval(text, i, ns), printed, FALSE, ns)

(***************************************************************************)
(* run.py, run_file(path, mode): the file is read, lexed and parsed, and    *)
(* the statements are interpreted (mode run) or compiled to Python and      *)
(* executed (mode compile).  An exception of the lexer or of the parser     *)
(* leaves run_file.  pid is the run: the text of the file and the mode.     *)
(***************************************************************************)
BinaryLexemes == {<<"*">>, <<"/">>, <<"+">>, <<"-">>, <<"<">>, <<"<","=">>, <<">">>, <<">","=">>, <<"=","=">>, <<"!","=">>}

\* the literals of the printed expressions: 0 and 2 are numbers
Literals == {<<"0">>, <<"2">>, <<"\"","2","\"">>, <<"\"","a","\"">>, <<"t","r","u","e">>, <<"n","i","l">>}

\* Programs of print and expression statements over literals and operators
\* (-0.0 is no value of the model: 0 is not negated), the empty text, and
\* texts the lexer or the parser refuses.
Printing ==
  {<<"p","r","i","n","t"," ","8"," ">> \o o1 \o <<" ","4"," ">> \o o2 \o <<" ","2">> : o1, o2 \in BinaryLexemes}
    \cup {<<"p","r","i","n","t"," ">> \o a \o <<" ">> \o o \o <<" ">> \o b \o <<";">> : a, b \in Literals, o \in BinaryLexemes}
    \cup {<<"p","r","i","n","t"," ","!">> \o a \o <<";">> : a \in Literals}
    \cup {<<"p","r","i","n","t"," ","-">> \o a \o <<";">> : a \in Literals \ {<<"0">>}}
    \cup {<<"p","r","i","n","t"," ","1",";"," ","p","r","i","n","t"," ","n","i","l"," ","-"," ","1",";"," ","p","r","i","n","t"," ","2",";">>, <<"p","r","i","n","t"," ","(","2"," ","+"," ","2",")"," ","*"," ","-","(","2",")",";"," ","2"," ","/"," ","0",";"," ","p","r","i","n","t"," ","4",";">>,
          <<"2"," ","+"," ","2">>, <<"p","r","i","n","t"," ","\"","i","t","'","s","\""," ","+"," ","\"","\\","\\","\"",";">>, <<>>, <<"@">>, <<"p","r","i","n","t"," ",";">>}

\* Programs that declare and assign a variable.
Declaring ==
  {<<"v","a","r"," ","x"," ","="," ","2"," ","+"," ","3"," ","*"," ","4",";"," ","p","r","i","n","t"," ","x",";">>, <<"v","a","r"," ","x",";"," ","x"," ","="," ","1"," ","+"," ","2"," ","=","="," ","3",";"," ","p","r","i","n","t"," ","x">>,
   <<"v","a","r"," ","f","l","o","a","t"," ","x"," ","="," ","\"","n","a","n","\"",";"," ","v","a","r"," ","f","l","o","a","t"," ","y"," ","="," ","x",";"," ","p","r","i","n","t"," ","x"," ","=","="," ","y",";">>}

\* the conditions tested: nil, the booleans, numbers and texts, 0 and the
\* empty text among them
Conditions == {<<"n","i","l">>, <<"f","a","l","s","e">>, <<"t","r","u","e">>, <<"0">>, <<"2">>, <<"\"","\"">>, <<"\"","a","\"">>}

\* Programs that branch and loop on a condition, and one that fails in a block.
Branching ==
  {<<"i","f"," ","(">> \o c \o <<")"," ","p","r","i","n","t"," ","\"","t","\"",";"," ","e","l","s","e"," ","p","r","i","n","t"," ","\"","f","\"",";">> : c \in Conditions}
    \cup {<<"i","f"," ","(">> \o c \o <<")"," ","p","r","i","n","t"," ","\"","t","\"",";"," ","p","r","i","n","t"," ","\"","e","\"",";">> : c \in Conditions}
    \cup {<<"v","a","r"," ","x"," ","="," ">> \o c \o <<";"," ","w","h","i","l","e"," ","(","x",")"," ","{"," ","p","r","i","n","t"," ","x",";"," ","x"," ","="," ","n","i","l",";"," ","}"," ","p","r","i","n","t"," ","!">> \o c \o <<";">> :
            c \in Conditions}
    \cup {<<"i","f"," ","(","t","r","u","e",")"," ","{"," ","p","r","i","n","t"," ","n","i","l"," ","-"," ","1",";"," ","}"," ","p","r","i","n","t"," ","2",";">>}

\* the type names of a declaration and the initializers declared with them:
\* a numeral in a text, a text that is no numeral, a number, nil, a boolean
Annotations == {<<"i","n","t">>, <<"f","l","o","a","t">>, <<"s","t","r","i","n","g">>, <<"b","o","o","l">>}

Initializers == {<<"\"","7","\"">>, <<"\"","x","\"">>, <<"0">>, <<"n","i","l">>, <<"t","r","u","e">>}

\* Programs that declare a variable with a type and without one, with an
\* initializer and without one, and that assign to a declared variable from
\* the scope of the declaration and from a block in it.
Typing ==
  {<<"v","a","r"," ">> \o t \o <<" ","x"," ","="," ">> \o i \o <<";"," ","p","r","i","n","t"," ","x",";">> : t \in Annotations, i \in Initializers}
    \cup {<<"v","a","r"," ">> \o t \o <<" ","x",";"," ","p","r","i","n","t"," ","x",";">> : t \in Annotations}
    \cup {<<"v","a","r"," ">> \o t \o <<" ","x"," ","="," ","1",";"," ","{"," ","x"," ","="," ">> \o i \o <<";"," ","}"," ","p","r","i","n","t"," ","x",";">> :
            t \in Annotations, i \in Initializers}
    \cup {<<"v","a","r"," ","x",";"," ","p","r","i","n","t"," ","x",";">>,
          <<"v","a","r"," ","x"," ","="," ","1",";"," ","{"," ","v","a","r"," ","i","n","t"," ","x"," ","="," ","\"","7","\"",";"," ","p","r","i","n","t"," ","x",";"," ","}"," ","p","r","i","n","t"," ","x",";">>,
          <<"v","a","r"," ","i","n","t"," ","x"," ","="," ","1",";"," ","{"," ","v","a","r"," ","x"," ","="," ","\"","a","\"",";"," ","x"," ","="," ","\"","5","\"",";"," ","p","r","i","n","t"," ","x",";"," ","}"," ","p","r","i","n","t"," ","x",";">>,
          <<"v","a","r"," ","x"," ","="," ","1",";"," ","{"," ","v","a","r"," ","i","n","t"," ","x"," ","="," ","2",";"," ","}"," ","x"," ","="," ","\"","5","\"",";"," ","p","r","i","n","t"," ","x"," ","+"," ","1",";">>,
          <<"v","a","r"," ","i","n","t"," ","x"," ","="," ","1",";"," ","v","a","r"," ","x"," ","="," ","\"","a","\"",";"," ","x"," ","="," ","\"","5","\"",";"," ","p","r","i","n","t"," ","x"," ","+"," ","1",";">>,
          <<"v","a","r"," ","x"," ","="," ","1",";"," ","x"," ","="," ","\"","a","\"",";"," ","p","r","i","n","t"," ","x",";"," ","y"," ","="," ","2",";">>}

\* Programs that assign to a declared variable of the outermost scope: the
\* right-hand side reads the variable, fails (2 / 0), or is an assignment
\* itself.  The operands are numbers, or texts that are added.
Assigning ==
  {<<"v","a","r"," ","x"," ","="," ">> \o a \o <<";"," ","x"," ","="," ","2"," ">> \o o \o <<" ","x",";"," ","p","r","i","n","t"," ","x",";">> : a \in {<<"0">>, <<"2">>}, o \in BinaryLexemes}
    \cup {<<"v","a","r"," ","x"," ","="," ","0",";"," ","x"," ","="," ","2",";"," ","p","r","i","n","t"," ","x",";">>,
          <<"v","a","r"," ","x"," ","="," ","\"","a","\"",";"," ","x"," ","="," ","x"," ","+"," ","\"","b","\"",";"," ","p","r","i","n","t"," ","x",";">>,
          <<"v","a","r"," ","x",";"," ","x"," ","="," ","1"," ","<"," ","2",";"," ","p","r","i","n","t"," ","x",";"," ","p","r","i","n","t"," ","3",";">>,
          <<"v","a","r"," ","x"," ","="," ","1",";"," ","v","a","r"," ","y"," ","="," ","2",";"," ","x"," ","="," ","y",";"," ","y"," ","="," ","x"," ","+"," ","y",";"," ","p","r","i","n","t"," ","x",";"," ","p","r","i","n","t"," ","y",";">>,
          <<"v","a","r"," ","y"," ","="," ","0",";"," ","v","a","r"," ","x"," ","="," ","0",";"," ","x"," ","="," ","y"," ","="," ","y"," ","+"," ","1",";"," ","p","r","i","n","t"," ","x",";"," ","p","r","i","n","t"," ","y",";">>,
          <<"v","a","r"," ","y"," ","="," ","0",";"," ","v","a","r"," ","x"," ","="," ","0",";"," ","y"," ","="," ","y"," ","+"," ","1",";"," ","x"," ","="," ","y",";"," ","p","r","i","n","t"," ","x",";"," ","p","r","i","n","t"," ","y",";">>}

Sources == Printing \cup Declaring \cup Branching \cup Typing \cup Assigning

\* the modes of run_file, and a word that is none of them
Modes == {<<"r","u","n">>, <<"c","o","m","p","i","l","e">>, <<"c","h","e","c","k">>}

\* the runs: the texts of Printing and of Assigning are run in mode compile
Runs ==
  {r \in [source : Sources, mode : Modes] :
     r.mode = <<"c","o","m","p","i","l","e">> => r.source \in Printing \cup Assigning}

RunInit ==
  /\ pid \in Runs
  /\ debug = FALSE
  /\ heap = <<[Environment(0) EXCEPT
                 !.values = (<<"i","n","p","u","t">> :> HostV(1)) @@ (<<"s","l","e","e","p">> :> HostV(2))]>>
  /\ environment = 1
  /\ closures = <<>>
  /\ namespaces = <<>>
  /\ module_cache = <<>>
  /\ out = <<>>
  /\ kont = <<>>
  /\ ctrl = [m |-> "run_file"]

exit(status) == [m |-> "exit", status |-> status]

\* Lexer(source).scan_tokens() or Parser(tokens).parse() raises
RunFileRaise(r) ==
  /\ ~r.ok
  /\ ctrl' = [m |-> "raised", exc |-> raise(r.msg).exc]
  /\ UNCHANGED <<kont, environment, heap, closures, namespaces, module_cache, out, debug, pid>>

\* if not statements: return 1
RunFileEmpty(r) ==
  /\ r.ok /\ r.node = <<>>
  /\ out' = Append(out, <<"P","a","r","s","i","n","g"," ","p","r","o","d","u","c","e","d"," ","n","o"," ","s","t","a","t","e","m","e","n","t","s",".">>)
  /\ ctrl' = exit(1)
  /\ UNCHANGED <<kont, environment, heap, closures, namespaces, module_cache, debug, pid>>

\* mode run: Interpreter().interpret(statements)
RunFileInterpret(r) ==
  /\ r.ok /\ r.node # <<>> /\ pid.mode = <<"r","u","n">>
  /\ kont' = <<[k |-> "interpret", rest |-> r.node], [k |-> "run_file"]>>
  /\ ctrl' = completed
  /\ UNCHANGED <<environment, heap, closures, namespaces, module_cache, out, debug, pid>>

\* mode run: return 0, whatever interpret returned
RunFileInterpreted ==
  /\ ctrl.m = "returned" /\ kont # <<>> /\ Head(kont).k = "run_file"
  /\ kont' = Tail(kont)
  /\ ctrl' = exit(0)
  /\ UNCHANGED <<environment, heap, closures, namespaces, module_cache, out, debug, pid>>

\* namespace = {'sleep': time.sleep}
Namespace == <<"s","l","e","e","p">> :> HostV(2)

\* mode compile: the statements are compiled and the text is executed;
\* return 2 on an exception, after its message is printed
RunFileCompile(r) ==
  /\ r.ok /\ r.node # <<>> /\ pid.mode = <<"c","o","m","p","i","l","e">>
  /\ \E x \in {PyExec(python_code(r.node), 1, <<>>, Namespace)} :
       IF x.ok
       THEN out' = out \o x.out /\ ctrl' = exit(0)
       ELSE /\ out' = out \o x.out \o <<<<"E","r","r","o","r"," ","r","u","n","n","i","n","g"," ","c","o","m","p","i","l","e","d"," ","c","o","d","e",":"," ">> \o x.msg>>
            /\ ctrl' = exit(2)
  /\ UNCHANGED <<kont, environment, heap, closures, namespaces, module_cache, debug, pid>>

\* any other mode: return 3
RunFileUnknownMode(r) ==
  /\ r.ok /\ r.node # <<>> /\ pid.mode \notin {<<"r","u","n">>, <<"c","o","m","p","i","l","e">>}
  /\ out' = Append(out, <<"U","n","k","n","o","w","n"," ","m","o","d","e",":"," ">> \o pid.mode \o <<"."," ","U","s","e"," ","'","r","u","n","'"," ","o","r"," ","'","c","o","m","p","i","l","e","'",".">>)
  /\ ctrl' = exit(3)
  /\ UNCHANGED <<kont, environment, heap, closures, namespaces, module_cache, debug, pid>>

RunFile ==
  /\ ctrl.m = "run_file"
  /\ \E r \in {Compile(pid.source)} :
       \/ RunFileRaise(r)
       \/ RunFileEmpty(r)
       \/ RunFileInterpret(r)
       \/ RunFileCompile(r)
       \/ RunFileUnknownMode(r)

RunNext ==
  \/ RunFile \/ RunFileInterpreted
  \/ InterpretNext \/ InterpretReturn \/ InterpretExcept
  \/ ExecExpressionStmt \/ ExpressionStmtDone \/ ExecPrintStmt \/ PrintStmtDone
  \/ ExecVarStmt \/ VarStmtDefine
  \/ ExecBlockStmt \/ BlockNext \/ BlockExit \/ BlockUnwind
  \/ ExecIfStmt \/ IfStmtBranch \/ ExecWhileStmt \/ WhileStmtTest \/ WhileStmtLoop
  \/ EvalLiteral \/ EvalGrouping \/ EvalUnary \/ UnaryApply
  \/ EvalBinary \/ BinaryRight \/ BinaryApply \/ EvalVariable
  \/ EvalAssign \/ AssignApply
  \/ Propagate

RunSpec == RunInit /\ [][RunNext]_vars

(***************************************************************************)
(* Interpreter.evaluate and Interpreter.interpret as functions of the      *)
(* tree, for the programs of Printing and Assigning: top-level print,      *)
(* expression and untyped var statements over literals, variables,         *)
(* operators, groupings and assignments.  values is the global scope; a    *)
(* result is [ok, v, msg, values], and what the statements print.          *)
(***************************************************************************)
\* the global scope of a new Interpreter
Globals == (<<"i","n","p","u","t">> :> HostV(1)) @@ (<<"s","l","e","e","p">> :> HostV(2))

In(r, values) == [ok |-> r.ok, v |-> r.v, msg |-> r.msg, values |-> values]

EvaluateUnary(operator, right) ==
  IF right.ok THEN In(UnaryOp(operator, right.v), right.values) ELSE right

EvaluateBinary(operator, left, right) ==
  IF ~left.ok THEN left
  ELSE IF ~right.ok THEN right
  ELSE In(BinaryOp(operator, left.v, right.v, <<>>), right.values)

EvaluateAssign(name, r) ==
  IF ~r.ok THEN r
  ELSE IF name \in DOMAIN r.values
  THEN In(Ok(r.v), [n \in DOMAIN r.values |-> IF n = name THEN r.v ELSE r.values[n]])
  ELSE In(Err(<<"U","n","d","e","f","i","n","e","d"," ","v","a","r","i","a","b","l","e"," ","'">> \o name \o <<"'">>), r.values)

RECURSIVE evaluate(_, _)
evaluate(expr, values) ==
  CASE expr.k = "Literal" -> In(Ok(expr.value), values)
    [] expr.k = "Grouping" -> evaluate(expr.expression, values)
    [] expr.k = "Unary" -> EvaluateUnary(expr.operator.type, evaluate(expr.right, values))
    [] expr.k = "Binary" ->
         EvaluateBinary(expr.operator.type, evaluate(expr.left, values),
                        IF evaluate(expr.left, values).ok
                        THEN evaluate(expr.right, evaluate(expr.left, values).values)
                        ELSE evaluate(expr.left, values))
    [] expr.k = "Variable" ->
         IF expr.name.lexeme \in DOMAIN values THEN In(Ok(values[expr.name.lexeme]), values)
         ELSE In(Err(<<"U","n","d","e","f","i","n","e","d"," ","v","a","r","i","a","b","l","e"," ","'">> \o expr.name.lexeme \o <<"'">>), values)
    [] expr.k = "Assign" -> EvaluateAssign(expr.name.lexeme, evaluate(expr.value, values))

RECURSIVE interpret(_, _, _)
Executed(statements, r, printed) ==
  IF ~r.ok
  THEN [ok |-> FALSE, out |-> Append(printed, <<"R","u","n","t","i","m","e"," ","e","r","r","o","r",":"," ">> \o r.msg)]
  ELSE interpret(Tail(statements),
                 IF Head(statements).k = "PrintStmt" THEN Append(printed, Str(r.v))
                 ELSE printed,
                 IF Head(statements).k = "VarStmt"
                 THEN [n \in DOMAIN r.values \cup {Head(statements).name.lexeme} |->
                         IF n = Head(statements).name.lexeme THEN r.v ELSE r.values[n]]
                 ELSE r.values)

interpret(statements, printed, values) ==
  IF statements = <<>> THEN [ok |-> TRUE, out |-> printed]
  ELSE IF Head(statements).k = "VarStmt"
  THEN Executed(statements,
                IF Head(statements).initializer = None THEN In(Ok(NilV), values)
                ELSE evaluate(Head(statements).initializer, values),
                printed)
  ELSE Executed(statements, evaluate(Head(statements).expression, values), printed)

(***************************************************************************)
(* Interpreter.coerce_value applied to a value and a declared type, and    *)
(* then to its own result and the same type.  ctrl holds the call and what *)
(* it returned or raised.                                                  *)
(***************************************************************************)
CoercedValues ==
  {NilV, BoolV(TRUE), BoolV(FALSE), IntV(0), IntV(7), IntV(-3), FloatV(0, 1), FloatV(15, 2),
   FloatV(-79, 10), FloatV(1, 0), FloatV(-1, 0), FloatV(0, 0)}
    \cup {StrV(s) : s \in {<<"7">>, <<" ","7"," ">>, <<"7",".","5">>, <<"-","7",".","9">>, <<"a","b","c">>, <<>>, <<"t","r","u","e">>, <<" ","Y","e","s">>,
                           <<"0">>, <<"n","o">>, <<"n","a","n">>, <<"i","n","f">>, <<"-","I","n","f","i","n","i","t","y">>, <<"i","t","'","s">>}}

DeclaredTypes == {<<"i","n","t">>, <<"f","l","o","a","t">>, <<"s","t","r","i","n","g">>, <<"s","t","r">>, <<"b","o","o","l">>, <<"I","n","t">>, <<"B","O","O","L">>, <<"c","o","u","n","t">>}

CoerceInit ==
  /\ ctrl \in [m : {"coerce_value"}, value : CoercedValues, vtype : DeclaredTypes]
  /\ pid = "coerce_value"
  /\ debug = FALSE
  /\ heap = <<Environment(0)>>
  /\ environment = 1
  /\ closures = <<>>
  /\ namespaces = <<>>
  /\ module_cache = <<>>
  /\ out = <<>>
  /\ kont = <<>>

Coerce ==
  /\ ctrl.m = "coerce_value"
  /\ ctrl' = [m |-> "coerced", value |-> ctrl.value, vtype |-> ctrl.vtype,
              first |-> coerce_value(ctrl.value, ctrl.vtype)]
  /\ UNCHANGED <<kont, environment, heap, closures, namespaces, module_cache, out, debug, pid>>

CoerceAgain ==
  /\ ctrl.m = "coerced" /\ ctrl.first.ok
  /\ ctrl' = [m |-> "coerced again", value |-> ctrl.value, vtype |-> ctrl.vtype,
              first |-> ctrl.first, second |-> coerce_value(ctrl.first.v, ctrl.vtype)]
  /\ UNCHANGED <<kont, environment, heap, closures, namespaces, module_cache, out, debug, pid>>

CoerceNext == Coerce \/ CoerceAgain

CoerceSpec == CoerceInit /\ [][CoerceNext]_vars

(***************************************************************************)
(* Lexer.scan_tokens as it runs: one step for each call of scan_token, and *)
(* one that appends the EOF token and returns.  ctrl is the Lexer: source, *)
(* current, line, tokens, made by LexerInit for a text of Texts.  The loop *)
(* is a plain while loop: a step that can be taken is taken.               *)
(***************************************************************************)
\* the longest text scanned
MaxText == 3

\* letters that spell a keyword, a digit, the point, the quote, a blank, a
\* line break, operators, and a character no token starts with
Alphabet == {"i", "f", "1", ".", "\"", " ", "\n", "=", "!", "@"}

Texts == UNION {[1..n -> Alphabet] : n \in 0..MaxText}

LexInit ==
  /\ ctrl = [m |-> "Lexer"]
  /\ pid = "scan_tokens"
  /\ debug = FALSE
  /\ heap = <<Environment(0)>>
  /\ environment = 1
  /\ closures = <<>>
  /\ namespaces = <<>>
  /\ module_cache = <<>>
  /\ out = <<>>
  /\ kont = <<>>

\* Lexer(source): self.source = source; self.tokens = []; self.start = 0;
\* self.current = 0; self.line = 1 (positions count from 1 here)
LexerInit ==
  /\ ctrl.m = "Lexer"
  /\ \E source \in Texts :
       ctrl' = [m |-> "scan_tokens", source |-> source, current |-> 1, line |-> 1,
                tokens |-> <<>>]
  /\ UNCHANGED <<kont, environment, heap, closures, namespaces, module_cache, out, debug, pid>>

\* while not self.is_at_end(): self.start = self.current; self.scan_token()
ScanToken ==
  /\ ctrl.m = "scan_tokens" /\ ctrl.current =< Len(ctrl.source)
  /\ \E r \in {scan_token(ctrl.source, ctrl.current, ctrl.line, ctrl.tokens)} :
       ctrl' = IF r.ok
               THEN [ctrl EXCEPT !.current = r.current, !.line = r.line, !.tokens = r.tokens]
               ELSE [m |-> "raised", source |-> ctrl.source, exc |-> raise(r.msg).exc]
  /\ UNCHANGED <<kont, environment, heap, closures, namespaces, module_cache, out, debug, pid>>

\* self.tokens.append(Token(TokenType.EOF, "", None, self.line)); return
ScanEnd ==
  /\ ctrl.m = "scan_tokens" /\ ctrl.current > Len(ctrl.source)
  /\ ctrl' = [m |-> "returned", source |-> ctrl.source,
              tokens |-> Append(ctrl.tokens, Token("EOF", <<>>, NilV, ctrl.line))]
  /\ UNCHANGED <<kont, environment, heap, closures, namespaces, module_cache, out, debug, pid>>

LexNext == LexerInit \/ ScanToken \/ ScanEnd

LexSpec == LexInit /\ [][LexNext]_vars /\ WF_vars(LexNext)

(***************************************************************************)
(* Properties of the interpreter, each stated for the claim it settles.    *)
(***************************************************************************)
\* the activation a frame list belongs to: the nearest call, module load or
\* top-level run among the pending frames
Activation(k) ==
  LET own == {i \in 1..Len(k) : k[i].k \in {"call", "import", "interpret"}}
  IN k[CHOOSE i \in own : \A j \in own : i <= j]

\* a return signal is in flight from a return statement of a function body
ReturnInFunctionBody ==
  /\ ctrl.m = "raise" /\ ctrl.exc.kind = "ReturnException"
  /\ Activation(kont).k = "call"

\* C1: a return executed inside a function body, a try body with a catch body
\* included, is caught only at the call boundary: until then the signal travels
\* unchanged, no catch body runs for it, and there it becomes the call's value.
C1_ReturnCaughtOnlyAtCall ==
  [][ReturnInFunctionBody =>
       \/ ctrl' = ctrl
       \/ Head(kont).k = "call" /\ ctrl' = value(ctrl.exc.v)]_vars

\* C1, what the code does: f returns 1 inside a try that has a catch body; the
\* catch body prints the returned value as a message and f goes on to return 2.
C1_CatchBodyRanOnReturn ==
  /\ pid = "return_in_try" /\ ctrl.m = "returned"
  /\ out = <<<<"1",".","0">>, <<"2",".","0">>>>

\* the modules being loaded, outermost last
Loading(k) == SelectSeq(k, LAMBDA f : f.k = "import")

\* C2: the loader never re-enters a module that is currently loading: no two
\* loads in progress are of the same module.
C2_LoadingModuleNotReentered ==
  \A i, j \in 1..Len(Loading(kont)) :
    i # j => Loading(kont)[i].modname # Loading(kont)[j].modname

\* C2, what the code does: a imports b, b imports a, and a is loaded again and
\* again until Python's stack is exhausted.
C2_CycleExhaustsStack ==
  /\ pid = "cycle" /\ ctrl.m = "raise"
  /\ ctrl.exc.msg = <<"m","a","x","i","m","u","m"," ","r","e","c","u","r","s","i","o","n"," ","d","e","p","t","h"," ","e","x","c","e","e","d","e","d">>
  /\ Len(Loading(kont)) = MaxDepth

\* an import statement is about to resolve a name the cache does not hold
Resolving ==
  /\ ctrl.m = "exec" /\ ctrl.s.k = "ImportStmt"
  /\ LET modname == Join(Lexemes(ctrl.s.path))
     IN ~(modname \in DOMAIN module_cache /\ module_cache[modname] # NilV)

\* no source file and no host symbol
NothingFound ==
  /\ Resolving
  /\ FindFile(Files, Lexemes(ctrl.s.path)) = 0
  /\ HostImport(Lexemes(ctrl.s.path)) = NilV

\* a module file is found and its lexing or parsing fails
Unreadable ==
  /\ Resolving
  /\ FindFile(Files, Lexemes(ctrl.s.path)) # 0
  /\ ~LoadModule(Files[FindFile(Files, Lexemes(ctrl.s.path))], Depth(kont)).ok

\* a module file was found and its execution fails
ExecutionFailed == ctrl.m = "raise" /\ Head(kont).k = "import"

\* the last path segment of the import being resolved
ImportedName ==
  IF ctrl.m = "exec" THEN Lexemes(ctrl.s.path)[Len(ctrl.s.path)] ELSE Head(kont).last

\* the step binds the name to None in the importing scope and goes on to the
\* next statement
BindsNothingFound ==
  /\ ctrl' = completed
  /\ kont' = IF ctrl.m = "exec" THEN kont ELSE Tail(kont)
  /\ environment' = environment
  /\ ImportedName \in DOMAIN heap'[environment].values
  /\ heap'[environment].values[ImportedName] = NilV

\* C3, as stated: an import statement never raises: for a resolution failure of
\* any kind, whether or not debug is set, the last path segment is bound to the
\* nothing-found value in the importing scope and execution continues.
C3_ImportNeverRaises ==
  [][(NothingFound \/ Unreadable \/ ExecutionFailed) => BindsNothingFound]_vars

\* C3, amended: with no source file and no host symbol, and with debug off for a
\* found module file whose lexing, parsing or execution fails, the last path
\* segment is bound to the nothing-found value in the importing scope and
\* execution continues; with debug on the failure of a found module file is
\* raised out of the import statement and the name is left unbound.
C3_ImportRaisesOnlyUnderDebug ==
  [][/\ (NothingFound \/ (~debug /\ (Unreadable \/ ExecutionFailed)))
          => BindsNothingFound
     /\ (debug /\ (Unreadable \/ ExecutionFailed))
          => (ctrl'.m = "raise" /\ heap' = heap)]_vars

\* C3: with debug off, the module r has failed while it ran and r is bound to
\* None in the importing scope.
C3_FailedModuleBoundToNone ==
  /\ pid = "import_failing" /\ ~debug /\ ctrl = completed
  /\ Head(kont).k = "interpret"
  /\ <<"r">> \in DOMAIN heap[1].values /\ heap[1].values[<<"r">>] = NilV

\* C4: the source text  try { u } catch (e) { print e } print 1, whose body
\* reads an undefined variable, runs the handler with e bound to the message
\* of the failure, suppresses the failure and goes on with the statement after
\* the try.
C4_SourceTryRunsHandler ==
  (pid = "try_source" /\ ctrl.m \in {"returned", "raised"})
    => /\ ctrl.m = "returned" /\ ctrl.v = TRUE
       /\ out = <<<<"U","n","d","e","f","i","n","e","d"," ","v","a","r","i","a","b","l","e"," ","'","u","'">>, <<"1",".","0">>>>

\* C4, what the code does: the text is read as the expression statement try, a
\* block, a call of catch and a block, and the run ends at the variable try.
C4_SourceTryIsAVariable ==
  /\ pid = "try_source" /\ ~debug
  /\ Programs[pid][1] = ExpressionStmt(Variable(Identifier(<<"t","r","y">>)))
  /\ ctrl.m = "returned" /\ ctrl.v = FALSE
  /\ out = <<<<"R","u","n","t","i","m","e"," ","e","r","r","o","r",":"," ","U","n","d","e","f","i","n","e","d"," ","v","a","r","i","a","b","l","e"," ","'","t","r","y","'">>>>

\* the environments visible from e: e and the chain of its enclosing ones
RECURSIVE Scopes(_, _)
Scopes(h, e) == IF e = 0 THEN {} ELSE {e} \cup Scopes(h, h[e].enclosing)

\* the step enters the body of a closure
ClosureCalled ==
  /\ ctrl.m = "arguments" /\ Head(kont).rest = <<>> /\ Head(kont).callee.t = "fun"
  /\ ctrl'.m = "completed"

\* C5: each call of a closure creates a new environment whose parent is the
\* closure's captured environment; no environment that exists is changed, and
\* the environment of no other call of the closure is visible from the new one.
C5_CallCreatesEnvironment ==
  [][ClosureCalled =>
       LET f == closures[Head(kont).callee.n]
       IN /\ environment' \notin 1..Len(heap)
          /\ environment' \in 1..Len(heap')
          /\ heap'[environment'].enclosing = f.closure
          /\ Scopes(heap', environment') = {environment'} \cup Scopes(heap, f.closure)
          /\ \A e \in 1..Len(heap) : heap'[e] = heap[e]
          /\ \A i \in 1..Len(kont) :
               (kont[i].k = "call" /\ kont[i].function = Head(kont).callee.n)
                 => kont[i].env \notin Scopes(heap', environment')]_vars

\* C5: two calls of one closure are in progress, each with its own binding of
\* the same local.
C5_RecursiveCallsHaveOwnLocals ==
  \E i, j \in 1..Len(kont) :
    /\ i < j /\ kont[i].k = "call" /\ kont[j].k = "call"
    /\ kont[i].function = kont[j].function
    /\ <<"l">> \in DOMAIN heap[kont[i].env].values
    /\ <<"l">> \in DOMAIN heap[kont[j].env].values
    /\ heap[kont[i].env].values[<<"l">>] # heap[kont[j].env].values[<<"l">>]

\* the step leaves a statement list that execute_block ran in a child of the
\* scope around it: a block, a try or catch body, a module; not a function body
ChildScopeLeft ==
  /\ Head(kont).k = "execute_block" /\ kont[2].k # "call"
  /\ ctrl.m = "raise" \/ (ctrl.m = "completed" /\ Head(kont).rest = <<>>)

\* C6: a variable declared with var inside a block is not visible after the
\* block exits: the block runs in a new scope inside the current one, var
\* changes the current scope only, and on exit every name the block declared
\* resolves as it does in the enclosing scope: to the binding there, or to none.
C6_BlockVariableNotVisibleAfter ==
  [][/\ (ctrl.m = "exec" /\ ctrl.s.k = "BlockStmt")
          => /\ environment' \notin 1..Len(heap)
             /\ heap'[environment'] = Environment(environment)
             /\ Head(kont').previous = environment
     /\ (ctrl.m = "value" /\ Head(kont).k = "var")
          => \A e \in 1..Len(heap) : e # environment => heap'[e] = heap[e]
     /\ ChildScopeLeft
          => /\ environment' = heap[environment].enclosing
             /\ \A name \in DOMAIN heap[environment].values :
                  get(heap', environment', name) =
                    get(heap, heap[environment].enclosing, name)]_vars

\* C6: after the block that declared x = 2 and y = 3, x is 1 again and y is
\* undefined.
C6_OuterBindingAfterBlock ==
  /\ pid = "block_scope" /\ ~debug
  /\ ctrl.m = "returned" /\ ctrl.v = FALSE
  /\ out = <<<<"2",".","0">>, <<"1",".","0">>, <<"R","u","n","t","i","m","e"," ","e","r","r","o","r",":"," ","U","n","d","e","f","i","n","e","d"," ","v","a","r","i","a","b","l","e"," ","'","y","'">>>>

\* the name is bound in the chain of the current environment
Defined(name) == \E e \in Scopes(heap, environment) : name \in DOMAIN heap[e].values

\* the nearest environment of the chain that binds the name
RECURSIVE Binder(_, _, _)
Binder(h, e, name) ==
  IF name \in DOMAIN h[e].values THEN e ELSE Binder(h, h[e].enclosing, name)

\* a function that made a closure has returned and the closure is called
CalledAfterReturn ==
  \E i \in 1..Len(kont) :
    /\ kont[i].k = "call"
    /\ closures[kont[i].function].closure # 1
    /\ \A j \in 1..Len(kont) :
         kont[j].k = "call" => kont[j].env # closures[kont[i].function].closure

\* C7: a closure keeps read and write access to the captured environment after
\* the function that made it has returned: no environment and no closure is
\* ever dropped or rebound, a read yields the value stored in the nearest
\* environment of the chain that binds the name, and an assignment stores the
\* value there, where the next call of the closure reads it.
C7_ClosureKeepsCapturedEnvironment ==
  [][/\ \A e \in 1..Len(heap) :
          /\ e \in 1..Len(heap') /\ heap'[e].enclosing = heap[e].enclosing
          /\ DOMAIN heap[e].values \subseteq DOMAIN heap'[e].values
     /\ \A c \in 1..Len(closures) : c \in 1..Len(closures') /\ closures'[c] = closures[c]
     /\ (ctrl.m = "eval" /\ ctrl.e.k = "Variable" /\ Defined(ctrl.e.name.lexeme))
          => ctrl' = value(heap[Binder(heap, environment, ctrl.e.name.lexeme)]
                             .values[ctrl.e.name.lexeme])
     /\ (ctrl.m = "value" /\ Head(kont).k = "assign" /\ Defined(Head(kont).name.lexeme)
           /\ ~get_type(heap, environment, Head(kont).name.lexeme).found)
          => LET name == Head(kont).name.lexeme
                 e == Binder(heap, environment, name)
             IN /\ ctrl' = ctrl
                /\ heap' = [heap EXCEPT ![e].values = (name :> ctrl.v) @@ @]]_vars

\* C7: mk(0) has returned; the closure it made has counted c to 1 in a first
\* call and reads and stores c in a second.
C7_CounterCounts ==
  /\ pid = "counter" /\ CalledAfterReturn
  /\ out = <<<<"1",".","0">>>>
  /\ ctrl.m = "value" /\ Head(kont).k = "assign" /\ ctrl.v = FloatV(2, 1)

\* an assignment is about to store into a name no scope of the chain binds
AssignsUndefined ==
  /\ ctrl.m = "value" /\ Head(kont).k = "assign"
  /\ ~Defined(Head(kont).name.lexeme)

\* C8: an assignment to a name that no scope from the current one up to the
\* root defines fails with an undefined-variable error and creates no binding:
\* the value and type mappings of every environment are as before.
C8_AssignUndefinedCreatesNoBinding ==
  [][AssignsUndefined =>
       /\ ctrl' = raise(<<"U","n","d","e","f","i","n","e","d"," ","v","a","r","i","a","b","l","e"," ","'">> \o Head(kont).name.lexeme \o <<"'">>)
       /\ heap' = heap]_vars

\* C8: inside a call, two scopes below the root, z = x has failed and no
\* environment binds z.
C8_AssignUndefinedFailed ==
  /\ pid = "assign_in_call" /\ ctrl.m = "raise"
  /\ ctrl.exc.msg = <<"U","n","d","e","f","i","n","e","d"," ","v","a","r","i","a","b","l","e"," ","'","z","'">>
  /\ Head(kont).k = "expression"
  /\ Cardinality(Scopes(heap, environment)) = 3
  /\ \A e \in 1..Len(heap) : <<"z">> \notin DOMAIN heap[e].values

\* the statements interpret has not started yet
Remaining == kont[Len(kont)].rest

\* C9: interpret executes the top-level statements in source order; at the
\* first uncaught failure no later statement is executed: with debug off it
\* returns false without raising, with debug on it raises the failure again;
\* it returns true exactly when every statement completed.
C9_InterpretRunsInOrderUntilFailure ==
  [][/\ \E n \in 0..Len(Programs[pid]) :
          Remaining = SubSeq(Programs[pid], n + 1, Len(Programs[pid]))
     /\ (ctrl.m = "completed" /\ Head(kont).k = "interpret" /\ Remaining # <<>>)
          => /\ ctrl' = exec(Head(Remaining))
             /\ kont' = <<[Head(kont) EXCEPT !.rest = Tail(Remaining)]>>
     /\ (ctrl.m = "raise" /\ Head(kont).k = "interpret")
          => /\ kont' = <<>>
             /\ ctrl'.m = IF debug THEN "raised" ELSE "returned"
             /\ debug => ctrl'.exc = ctrl.exc
             /\ ~debug => ctrl'.v = FALSE
     /\ (ctrl'.m = "returned" /\ ctrl'.v = TRUE)
          <=> (ctrl.m = "completed" /\ Head(kont).k = "interpret" /\ Remaining = <<>>)
     /\ ctrl'.m \in {"returned", "raised"} => ~(ENABLED Next)']_vars

\* C9: with debug off, the second of three statements has failed: the third
\* was not started and interpret has returned false.
C9_StoppedAtFirstFailure ==
  /\ pid = "assign_undefined" /\ ~debug
  /\ ctrl.m = "returned" /\ ctrl.v = FALSE /\ kont = <<>>
  /\ out = <<<<"R","u","n","t","i","m","e"," ","e","r","r","o","r",":"," ","U","n","d","e","f","i","n","e","d"," ","v","a","r","i","a","b","l","e"," ","'","z","'">>>>

\* the parameter that binds its name: the last of that name
Binds(params, i) == \A j \in 1..Len(params) : params[j].lexeme = params[i].lexeme => j <= i

\* C10: calling a closure with k arguments evaluates the callee and then the
\* arguments left to right, binds the i-th parameter to the i-th argument for
\* each i up to k, binds every remaining parameter to nil, ignores arguments
\* beyond the parameter count, and yields nil when the body completes without
\* a return.
C10_CallBindsParametersInOrder ==
  [][/\ (ctrl.m = "eval" /\ ctrl.e.k = "Call")
          => /\ ctrl' = eval(ctrl.e.callee)
             /\ Head(kont').arguments = ctrl.e.arguments
     /\ (ctrl.m = "value" /\ Head(kont).k = "callee")
          => /\ Head(kont').callee = ctrl.v /\ Head(kont').args = <<>>
             /\ Head(kont').rest = Head(kont).arguments
     /\ (ctrl.m = "arguments" /\ Head(kont).rest # <<>>)
          => /\ ctrl' = eval(Head(Head(kont).rest))
             /\ Head(kont').rest = Tail(Head(kont).rest)
             /\ Head(kont').args = Head(kont).args
     /\ (ctrl.m = "value" /\ Head(kont).k = "arguments")
          => /\ Head(kont').args = Append(Head(kont).args, ctrl.v)
             /\ Head(kont').rest = Head(kont).rest
     /\ ClosureCalled
          => LET params == closures[Head(kont).callee.n].declaration.params
                 args == Head(kont).args
                 values == heap'[environment'].values
             IN /\ DOMAIN values = {params[i].lexeme : i \in 1..Len(params)}
                /\ \A i \in 1..Len(params) :
                     Binds(params, i) =>
                       values[params[i].lexeme] = IF i <= Len(args) THEN args[i] ELSE NilV
     /\ (ctrl.m = "completed" /\ Head(kont).k = "call") => ctrl' = value(NilV)]_vars

\* C10: f(a, b) was called with one argument and with three: p printed each
\* argument as it was evaluated, g printed 0 as the callee was, and f printed a
\* and b: 1 and nil, then 1 and 2; the first call's value, nil, was printed.
C10_MissingAndExtraArguments ==
  /\ pid = "call_args" /\ ctrl.m = "returned" /\ ctrl.v = TRUE
  /\ out = <<<<"1",".","0">>, <<"1",".","0">>, <<"N","o","n","e">>, <<"N","o","n","e">>,
             <<"0",".","0">>, <<"1",".","0">>, <<"2",".","0">>, <<"3",".","0">>, <<"1",".","0">>, <<"2",".","0">>>>

\* C11: importing a module path that matches no source file and no host symbol
\* binds the last path segment to the nothing-found marker without raising,
\* and a call on a name that holds the marker fails with the not-callable
\* error.
C11_MissingModuleBoundThenNotCallable ==
  [][/\ NothingFound
          => /\ ctrl' = completed /\ kont' = kont
             /\ heap' = define(heap, environment, ImportedName, NilV)
     /\ (ctrl.m = "arguments" /\ Head(kont).rest = <<>> /\ Head(kont).callee = NilV)
          => /\ ctrl' = raise(<<"C","a","n"," ","o","n","l","y"," ","c","a","l","l"," ","f","u","n","c","t","i","o","n","s"," ","a","n","d"," ","c","a","l","l","a","b","l","e"," ","o","b","j","e","c","t","s">>)
             /\ kont' = Tail(kont) /\ heap' = heap]_vars

\* C11: zz was imported and found nowhere; it is bound to None, None was
\* printed, and the call zz() has failed.
C11_CallOfMissingModuleFailed ==
  /\ pid = "import_missing" /\ ctrl.m = "raise"
  /\ ctrl.exc.msg = <<"C","a","n"," ","o","n","l","y"," ","c","a","l","l"," ","f","u","n","c","t","i","o","n","s"," ","a","n","d"," ","c","a","l","l","a","b","l","e"," ","o","b","j","e","c","t","s">>
  /\ heap[1].values[<<"z","z">>] = NilV
  /\ out = <<<<"N","o","n","e">>>>

\* the run of the program has ended
Ended == kont = <<>>

\* C12, as stated: running  var count int = "7"; print count;  declares count
\* with declared type int, binds it to the integer 7 and prints 7.
C12_VarCountIntPrintsSeven ==
  (pid = "var_count_int" /\ Ended)
    => /\ ctrl.m = "returned" /\ ctrl.v = TRUE
       /\ out = <<<<"7">>>>
       /\ heap[1].values[<<"c","o","u","n","t">>] = IntV(7)
       /\ heap[1].types[<<"c","o","u","n","t">>] = <<"i","n","t">>

\* C12, amended: the declared type is written before the name.  Running
\* var int count = "7"; print count;  declares count with declared type int,
\* binds it to the integer 7 and prints 7;  var count int = "7"; print count;
\* declares a variable int of declared type count, bound to the string "7" as
\* it is, and the print fails: count is undefined.
C12_VarIntCountPrintsSeven ==
  /\ (pid = "var_int_count" /\ Ended)
       => /\ Programs[pid][1] = VarStmt(Identifier(<<"c","o","u","n","t">>), Literal(StrV(<<"7">>)),
                                         Identifier(<<"i","n","t">>))
          /\ ctrl.m = "returned" /\ ctrl.v = TRUE
          /\ out = <<<<"7">>>>
          /\ heap[1].values[<<"c","o","u","n","t">>] = IntV(7)
          /\ heap[1].types[<<"c","o","u","n","t">>] = <<"i","n","t">>
  /\ (pid = "var_count_int" /\ Ended)
       => /\ Programs[pid][1] = VarStmt(Identifier(<<"i","n","t">>), Literal(StrV(<<"7">>)),
                                         Identifier(<<"c","o","u","n","t">>))
          /\ heap[1].values[<<"i","n","t">>] = StrV(<<"7">>)
          /\ heap[1].types[<<"i","n","t">>] = <<"c","o","u","n","t">>
          /\ <<"c","o","u","n","t">> \notin DOMAIN heap[1].values
          /\ IF debug THEN ctrl.m = "raised" /\ ctrl.exc.msg = <<"U","n","d","e","f","i","n","e","d"," ","v","a","r","i","a","b","l","e"," ","'","c","o","u","n","t","'">>
             ELSE /\ ctrl.m = "returned" /\ ctrl.v = FALSE
                  /\ out = <<<<"R","u","n","t","i","m","e"," ","e","r","r","o","r",":"," ","U","n","d","e","f","i","n","e","d"," ","v","a","r","i","a","b","l","e"," ","'","c","o","u","n","t","'">>>>

\* C12: var int count = "7"; print count;  has printed 7.
C12_TypedDeclarationCoerced ==
  /\ pid = "var_int_count" /\ Ended
  /\ heap[1].values[<<"c","o","u","n","t">>] = IntV(7)
  /\ out = <<<<"7">>>>

\* the tree of  for (var i = 0; i < 3; i = i + 1) { print i; }: a block of the
\* initializer and a while, whose body is the body and then the increment
ForLoop ==
  LET i == Identifier(<<"i">>)
      number(n) == Literal(FloatV(n, 1))
  IN BlockStmt(<<
       VarStmt(i, number(0), None),
       WhileStmt(Binary(Variable(i), Token("LESS", <<"<">>, NilV, 1), number(3)),
                 BlockStmt(<<
                   BlockStmt(<<PrintStmt(Variable(i))>>),
                   ExpressionStmt(Assign(i, Binary(Variable(i), Token("PLUS", <<"+">>, NilV, 1),
                                                   number(1))))>>))>>)

\* what the loop has printed when i is n: the numbers below n, as Python
\* prints a float
Printed(n) == [j \in 1..n |-> Str(FloatV(j - 1, 1))]

\* C13, as stated: for (var i = 0; i < 3; i = i + 1) { print i; }  prints 0, 1,
\* 2 in that order and then terminates.
C13_ForPrintsIntegers ==
  (pid = "for_loop" /\ Ended) => out = <<<<"0">>, <<"1">>, <<"2">>>>

\* C13, amended: the loop is a block of init and a while whose body is the
\* body followed by incr, so init runs once, the increment comes after the
\* body of the same iteration and i is scoped to the loop; it prints 0.0, 1.0,
\* 2.0 in that order, a number literal being a float, and then terminates.
C13_ForTestsRunsIncrements ==
  pid = "for_loop" =>
    /\ Programs[pid] = <<ForLoop>>
    /\ <<"i">> \notin DOMAIN heap[1].values
    /\ Len(heap) >= 2 =>
         /\ heap[2].enclosing = 1
         /\ <<"i">> \in DOMAIN heap[2].values =>
              LET i == heap[2].values[<<"i">>]
              IN /\ i \in {FloatV(n, 1) : n \in 0..3}
                 /\ out \in {Printed(n) : n \in {i.n, i.n + 1} \cap 0..3}
                 /\ \A e \in 3..Len(heap) : <<"i">> \notin DOMAIN heap[e].values
    /\ Ended => /\ ctrl.m = "returned" /\ ctrl.v = TRUE
                /\ out = <<<<"0",".","0">>, <<"1",".","0">>, <<"2",".","0">>>>
                /\ environment = 1
    /\ ~Ended => ENABLED Next

\* C13: the loop has ended after three rounds.
C13_ForLoopEnded ==
  /\ pid = "for_loop" /\ Ended
  /\ heap[2].values[<<"i">>] = FloatV(3, 1)
  /\ out = Printed(3)

\* the rule of the binary operator, by how tightly it binds: factor, term,
\* comparison, equality
Tightness(lexeme) ==
  CASE lexeme \in {<<"*">>, <<"/">>} -> 4
    [] lexeme \in {<<"+">>, <<"-">>} -> 3
    [] lexeme \in {<<"<">>, <<"<","=">>, <<">">>, <<">","=">>} -> 2
    [] lexeme \in {<<"=","=">>, <<"!","=">>} -> 1

\* the token of a binary operator on line 1
OperatorToken(lexeme) ==
  Token(CASE lexeme = <<"*">> -> "STAR" [] lexeme = <<"/">> -> "SLASH"
          [] lexeme = <<"+">> -> "PLUS" [] lexeme = <<"-">> -> "MINUS"
          [] lexeme = <<"<">> -> "LESS" [] lexeme = <<"<","=">> -> "LESS_EQUAL"
          [] lexeme = <<">">> -> "GREATER" [] lexeme = <<">","=">> -> "GREATER_EQUAL"
          [] lexeme = <<"=","=">> -> "EQUAL_EQUAL" [] lexeme = <<"!","=">> -> "BANG_EQUAL",
        lexeme, NilV, 1)

\* a o1 b o2 c, grouped as the claim has it: the tighter operator first, the
\* left one first where both are of one level
Grouped(a, o1, b, o2, c) ==
  IF Tightness(o1) >= Tightness(o2)
  THEN Binary(Binary(a, OperatorToken(o1), b), OperatorToken(o2), c)
  ELSE Binary(a, OperatorToken(o1), Binary(b, OperatorToken(o2), c))

Number(n) == Literal(FloatV(n, 1))

\* the statements run_file hands to interpret, in the step that does so
Interpreted == Head(kont').rest

\* C14, as stated: var x = 2 + 3 * 4; print x;  prints 14.
C14_PrintsFourteen ==
  (pid.source = <<"v","a","r"," ","x"," ","="," ","2"," ","+"," ","3"," ","*"," ","4",";"," ","p","r","i","n","t"," ","x",";">> /\ pid.mode = <<"r","u","n">> /\ ctrl.m = "exit") => out = <<<<"1","4">>>>

\* C14, amended: factor binds tighter than term, term than comparison,
\* comparison than equality, each level is left-associative and assignment is
\* below all of them; so var x = 2 + 3 * 4; print x;  prints 14.0, a number
\* literal being a float.
C14_OperatorsGroupByLevel ==
  /\ [][(ctrl.m = "run_file" /\ pid.mode = <<"r","u","n">>) =>
          /\ \A o1, o2 \in BinaryLexemes :
               pid.source = <<"p","r","i","n","t"," ","8"," ">> \o o1 \o <<" ","4"," ">> \o o2 \o <<" ","2">>
                 => Interpreted = <<PrintStmt(Grouped(Number(8), o1, Number(4), o2,
                                                      Number(2)))>>
          /\ pid.source = <<"v","a","r"," ","x",";"," ","x"," ","="," ","1"," ","+"," ","2"," ","=","="," ","3",";"," ","p","r","i","n","t"," ","x">>
               => Interpreted[2] =
                    ExpressionStmt(Assign(Identifier(<<"x">>),
                                          Grouped(Number(1), <<"+">>, Number(2), <<"=","=">>,
                                                  Number(3))))]_vars
  /\ []((ctrl.m = "exit" /\ pid.mode = <<"r","u","n">>) =>
          /\ pid.source = <<"v","a","r"," ","x"," ","="," ","2"," ","+"," ","3"," ","*"," ","4",";"," ","p","r","i","n","t"," ","x",";">> => out = <<<<"1","4",".","0">>>>
          /\ pid.source = <<"p","r","i","n","t"," ","8"," ","-"," ","4"," ","-"," ","2">> => out = <<<<"2",".","0">>>>
          /\ pid.source = <<"p","r","i","n","t"," ","8"," ","/"," ","4"," ","/"," ","2">> => out = <<<<"1",".","0">>>>
          /\ pid.source = <<"p","r","i","n","t"," ","8"," ","-"," ","4"," ","*"," ","2">> => out = <<<<"0",".","0">>>>
          /\ pid.source = <<"p","r","i","n","t"," ","8"," ","+"," ","4"," ","<"," ","2">> => out = <<<<"F","a","l","s","e">>>>
          /\ pid.source = <<"p","r","i","n","t"," ","8"," ","<"," ","4"," ","=","="," ","2">> => out = <<<<"F","a","l","s","e">>>>
          /\ pid.source = <<"v","a","r"," ","x",";"," ","x"," ","="," ","1"," ","+"," ","2"," ","=","="," ","3",";"," ","p","r","i","n","t"," ","x">> => out = <<<<"T","r","u","e">>>>)

\* C14: 2 + 3 * 4 has been read as 2 + (3 * 4) and 14.0 was printed.
C14_FourteenPrinted ==
  /\ pid.source = <<"v","a","r"," ","x"," ","="," ","2"," ","+"," ","3"," ","*"," ","4",";"," ","p","r","i","n","t"," ","x",";">> /\ pid.mode = <<"r","u","n">> /\ ctrl.m = "exit"
  /\ heap[1].values[<<"x">>] = FloatV(14, 1)
  /\ out = <<<<"1","4",".","0">>>>

\* what the statements printed, the line of the failure left out
ProgramOutput(printed, ok) == IF ok THEN printed ELSE SubSeq(printed, 1, Len(printed) - 1)

\* the text is a program whose statements are all print statements
OnlyPrints(r) == r.ok /\ r.node # <<>> /\ \A n \in 1..Len(r.node) : r.node[n].k = "PrintStmt"

InterpretedAs(i) ==
  IF pid.mode = <<"r","u","n">> THEN out = i.out
  ELSE /\ (ctrl.status = 0) = i.ok
       /\ ProgramOutput(out, ctrl.status = 0) = ProgramOutput(i.out, i.ok)

\* C15, as stated: a program of print statements over literals and
\* operators, compiled and executed, prints what interpret prints for the same
\* statements, and fails exactly when interpret fails (the line that reports
\* the failure aside).
C15_CompiledRunsAsInterpreted ==
  (ctrl.m = "exit" /\ pid.mode \in {<<"r","u","n">>, <<"c","o","m","p","i","l","e">>}
     /\ pid.source \in Printing /\ OnlyPrints(Compile(pid.source)))
    => InterpretedAs(interpret(Program(pid.source), <<>>, Globals))

\* C15: print !0; has been compiled to print((not 0.0)), which printed True
C15_NotZeroPrintedTrue ==
  /\ pid = [source |-> <<"p","r","i","n","t"," ","!","0",";">>, mode |-> <<"c","o","m","p","i","l","e">>]
  /\ ctrl.m = "exit" /\ ctrl.status = 0
  /\ out = <<<<"T","r","u","e">>>>
  /\ interpret(Program(pid.source), <<>>, Globals).out = <<<<"F","a","l","s","e">>>>

\* T is one of int, float, string, bool, in either case
KnownType(vtype) == Lower(vtype) \in {<<"i","n","t">>, <<"f","l","o","a","t">>, <<"s","t","r","i","n","g">>, <<"s","t","r">>, <<"b","o","o","l">>}

\* C16, as stated: where coerce(v, T) succeeds, coerce(coerce(v, T), T)
\* succeeds and equals coerce(v, T).
C16_CoercionIdempotent ==
  (ctrl.m = "coerced again" /\ KnownType(ctrl.vtype))
    => ctrl.second.ok /\ PyEq(ctrl.second.v, ctrl.first.v, <<>>)

\* C16: the text nan was coerced to the float nan, and that again to nan,
\* which equals no value
C16_NaNCoercedTwice ==
  /\ ctrl.m = "coerced again" /\ ctrl.value = StrV(<<"n","a","n">>) /\ ctrl.vtype = <<"f","l","o","a","t">>
  /\ IsNaN(ctrl.first.v) /\ ctrl.second = ctrl.first
  /\ ~PyEq(ctrl.second.v, ctrl.first.v, <<>>)

\* the truth of a value, as the claim states it
Truthy(v) == v \notin {NilV, BoolV(FALSE)}

\* the frame that waits for the value in ctrl is of kind k
Awaited(k) == ctrl.m = "value" /\ kont # <<>> /\ Head(kont).k = k

\* C17: if takes the then-branch, while runs its body, and ! yields false
\* exactly for a value other than nil and false; the number 0 and the empty
\* text are true.
C17_OnlyNilAndFalseAreFalse ==
  /\ [][/\ Awaited("if") =>
             IF Truthy(ctrl.v)
             THEN ctrl'.m = "exec" /\ ctrl'.s = Head(kont).stmt.then_branch
             ELSE IF Head(kont).stmt.else_branch = None THEN ctrl'.m = "completed"
             ELSE ctrl'.m = "exec" /\ ctrl'.s = Head(kont).stmt.else_branch
        /\ Awaited("while_condition") =>
             IF Truthy(ctrl.v)
             THEN ctrl'.m = "exec" /\ ctrl'.s = Head(kont).stmt.body
             ELSE ctrl'.m = "completed" /\ kont' = Tail(kont)
        /\ (Awaited("unary") /\ Head(kont).operator.type = "BANG") =>
             ctrl'.m = "value" /\ ctrl'.v = BoolV(~Truthy(ctrl.v))]_vars
  /\ []((ctrl.m = "exit" /\ pid.mode = <<"r","u","n">>) =>
          /\ \A c \in Conditions :
               /\ pid.source = <<"i","f"," ","(">> \o c \o <<")"," ","p","r","i","n","t"," ","\"","t","\"",";"," ","e","l","s","e"," ","p","r","i","n","t"," ","\"","f","\"",";">>
                    => out = <<IF c \in {<<"n","i","l">>, <<"f","a","l","s","e">>} THEN <<"f">> ELSE <<"t">>>>
               /\ pid.source = <<"v","a","r"," ","x"," ","="," ">> \o c \o <<";"," ","w","h","i","l","e"," ","(","x",")"," ","{"," ","p","r","i","n","t"," ","x",";"," ","x"," ","="," ","n","i","l",";"," ","}"," ","p","r","i","n","t"," ","!">> \o c \o <<";">>
                    => Len(out) = (IF c \in {<<"n","i","l">>, <<"f","a","l","s","e">>} THEN 1 ELSE 2)
                         /\ out[Len(out)] = (IF c \in {<<"n","i","l">>, <<"f","a","l","s","e">>} THEN <<"T","r","u","e">>
                                             ELSE <<"F","a","l","s","e">>))

\* C17: the loop on x = 0 ran its body once, and !0 was false
C17_ZeroIsTrue ==
  /\ pid.source = <<"v","a","r"," ","x"," ","="," ","0",";"," ","w","h","i","l","e"," ","(","x",")"," ","{"," ","p","r","i","n","t"," ","x",";"," ","x"," ","="," ","n","i","l",";"," ","}"," ","p","r","i","n","t"," ","!","0",";">>
  /\ ctrl.m = "exit"
  /\ out = <<<<"0",".","0">>, <<"F","a","l","s","e">>>>

\* interpret has returned to run_file
InterpretReturned == ctrl.m = "returned" /\ kont # <<>> /\ Head(kont).k = "run_file"

\* C18, as stated: the status is 0 only when the program ran successfully, 1
\* when parsing yields no statements, 2 when the run of the program or of
\* its compiled text fails, 3 when the mode is neither run nor compile.
C18_StatusTellsOutcome ==
  [][/\ InterpretReturned => ctrl'.m = "exit" /\ ctrl'.status = (IF ctrl.v THEN 0 ELSE 2)
     /\ (ctrl.m = "run_file" /\ ctrl'.m = "exit") =>
          ctrl'.status =
            (IF Compile(pid.source).node = <<>> THEN 1
             ELSE IF pid.mode \notin {<<"r","u","n">>, <<"c","o","m","p","i","l","e">>} THEN 3
             ELSE IF PyExec(python_code(Program(pid.source)), 1, <<>>, Namespace).ok THEN 0
             ELSE 2)]_vars

\* C18: the second statement failed and interpret returned False, yet the
\* status of the run is 0
C18_FailedRunExitsZero ==
  /\ pid = [source |-> <<"p","r","i","n","t"," ","1",";"," ","p","r","i","n","t"," ","n","i","l"," ","-"," ","1",";"," ","p","r","i","n","t"," ","2",";">>, mode |-> <<"r","u","n">>]
  /\ ctrl.m = "exit" /\ ctrl.status = 0
  /\ out = <<<<"1",".","0">>, <<"R","u","n","t","i","m","e"," ","e","r","r","o","r",":"," ","f","l","o","a","t","(",")"," ","a","r","g","u","m","e","n","t"," ","m","u","s","t"," ","b","e"," ","a"," ","s","t","r","i","n","g"," ","o","r"," ","a"," ","r","e","a","l"," ","n","u","m","b","e","r",","," ","n","o","t"," ","'","N","o","n","e","T","y","p","e","'">>>>

\* the tokens are lexemes of the text from position i on, in their order,
\* with nothing but blanks between them
RECURSIVE InSourceOrder(_, _, _)
InSourceOrder(tokens, source, i) ==
  IF tokens = <<>> THEN \A j \in i..Len(source) : IsSpace(source[j])
  ELSE \E a \in i..(Len(source) + 1) :
         /\ \A j \in i..(a - 1) : IsSpace(source[j])
         /\ a + Len(Head(tokens).lexeme) - 1 =< Len(source)
         /\ Head(tokens).lexeme # <<>>
         /\ SubSeq(source, a, a + Len(Head(tokens).lexeme) - 1) = Head(tokens).lexeme
         /\ InSourceOrder(Tail(tokens), source, a + Len(Head(tokens).lexeme))

\* C19: scan_tokens ends for every text, each call of scan_token consuming
\* at least one character; it raises, or returns the lexemes of the text in
\* their order followed by one EOF token, the only one.
C19_ScanEndsWithOneEOF ==
  /\ [][ctrl.m = "scan_tokens" /\ ctrl.current =< Len(ctrl.source) =>
          \/ ctrl'.m = "raised"
          \/ /\ ctrl'.m = "scan_tokens"
             /\ ctrl.current < ctrl'.current /\ ctrl'.current =< Len(ctrl.source) + 1
             /\ \/ ctrl'.tokens = ctrl.tokens
                \/ /\ Len(ctrl'.tokens) = Len(ctrl.tokens) + 1
                   /\ SubSeq(ctrl'.tokens, 1, Len(ctrl.tokens)) = ctrl.tokens]_vars
  /\ [](ctrl.m = "scan_tokens" => \A n \in 1..Len(ctrl.tokens) : ctrl.tokens[n].type # "EOF")
  /\ [](ctrl.m = "returned" =>
          /\ ctrl.tokens # <<>>
          /\ \A n \in 1..Len(ctrl.tokens) :
               (ctrl.tokens[n].type = "EOF") = (n = Len(ctrl.tokens))
          /\ InSourceOrder(SubSeq(ctrl.tokens, 1, Len(ctrl.tokens) - 1), ctrl.source, 1))
  /\ <>(ctrl.m \in {"returned", "raised"})

\* C19: a text of two tokens on two lines has been scanned
C19_TwoTokensAndEOF ==
  /\ ctrl.m = "returned" /\ ctrl.source = <<"1", "\n", "!">>
  /\ Len(ctrl.tokens) = 3
  /\ ctrl.tokens[1] = Token("NUMBER", <<"1">>, FloatV(1, 1), 1)
  /\ ctrl.tokens[2] = Token("BANG", <<"!">>, NilV, 2)
  /\ ctrl.tokens[3] = Token("EOF", <<>>, NilV, 2)

\* the environments the pending calls of execute_block will restore, the
\* innermost first
RECURSIVE Previous(_)
Previous(k) ==
  IF k = <<>> THEN <<>>
  ELSE IF Head(k).k = "execute_block" THEN <<Head(k).previous>> \o Previous(Tail(k))
  ELSE Previous(Tail(k))

\* C20: the current environment changes only when execute_block begins and
\* when it ends: a block, a function body, a try body, a catch body or a
\* module body begins by keeping the environment current before it, and
\* ends, completed or left by a return or an error, by making that
\* environment current again; with no execute_block pending, and so whenever
\* interpret returns or raises, the current environment is the root.
C20_EnvironmentRestored ==
  /\ [][IF Len(Previous(kont')) > Len(Previous(kont))
        THEN /\ Head(kont').k = "execute_block"
             /\ Previous(kont') = <<environment>> \o Previous(kont)
             /\ environment' = Len(heap') /\ Len(heap') = Len(heap) + 1
        ELSE IF Len(Previous(kont')) < Len(Previous(kont))
        THEN /\ Head(kont).k = "execute_block"
             /\ ctrl.m \in {"completed", "raise"}
             /\ Previous(kont') = Tail(Previous(kont))
             /\ environment' = Head(Previous(kont))
        ELSE /\ Previous(kont') = Previous(kont)
             /\ environment' = environment]_vars
  /\ [](Previous(kont) = <<>> => environment = 1)
  /\ [](ctrl.m \in {"returned", "raised"} => kont = <<>> /\ environment = 1)

\* C20: a call left by the return of its catch body and a catch body left by
\* the error of a block in it have ended, seven environments were made, and
\* the root is current when interpret returns
C20_RootAfterReturnAndError ==
  /\ pid = "catch_exits" /\ ctrl.m = "returned" /\ ~debug
  /\ Len(heap) = 7
  /\ Len(out) = 2 /\ out[1] = <<"3", ".", "0">>
  /\ environment = 1

\* an import statement is about to run for a path the cache holds as nothing
\* found: no file has the path and the host has no symbol for it
CachedNothingFound ==
  /\ ctrl.m = "exec" /\ ctrl.s.k = "ImportStmt"
  /\ Join(Lexemes(ctrl.s.path)) \in DOMAIN module_cache
  /\ module_cache[Join(Lexemes(ctrl.s.path))] = NilV
  /\ FindFile(Files, Lexemes(ctrl.s.path)) = 0
  /\ HostImport(Lexemes(ctrl.s.path)) = NilV

\* C21, as stated: an import of a path the cache holds as nothing found is
\* answered by the branch that returns the cached module, and not by the
\* branches that search the source files and look the host symbol up.
C21_NothingFoundAnsweredFromCache ==
  [][CachedNothingFound => (ImportCached /\ ~ImportHost)]_vars

\* C21, what the code does: zz was imported twice, the second import looked
\* for it again, and the run ended with zz bound to None
C21_MissingImportedTwice ==
  /\ pid = "import_missing_twice" /\ ctrl.m = "returned" /\ ctrl.v = TRUE
  /\ module_cache[<<"z","z">>] = NilV
  /\ out = <<<<"N","o","n","e">>>>

\* an import statement is about to run for a path the cache holds a namespace
\* or a host object for
CachedModule ==
  /\ ctrl.m = "exec" /\ ctrl.s.k = "ImportStmt"
  /\ Join(Lexemes(ctrl.s.path)) \in DOMAIN module_cache
  /\ module_cache[Join(Lexemes(ctrl.s.path))] # NilV

\* C22, as stated: an import of a path loaded before binds the cached object
\* and runs nothing; the cached object of a path never changes; and the body
\* of a module never completes for a path that is loaded already, so that it
\* runs at most once for a path.
C22_ModuleBodyRunsOnce ==
  /\ [][CachedModule =>
          /\ heap' = define(heap, environment, ImportedName,
                            module_cache[Join(Lexemes(ctrl.s.path))])
          /\ ctrl' = completed /\ kont' = kont
          /\ module_cache' = module_cache /\ namespaces' = namespaces]_vars
  /\ [][\A modname \in DOMAIN module_cache :
          module_cache[modname] # NilV => module_cache'[modname] = module_cache[modname]]_vars
  /\ [][(ctrl.m = "completed" /\ kont # <<>> /\ Head(kont).k = "import") =>
          ~(/\ Head(kont).modname \in DOMAIN module_cache
            /\ module_cache[Head(kont).modname] # NilV)]_vars

\* C22, what the code does: a imports b and b imports a; with debug off the
\* bodies of a and b have each run to their end twice, and four namespaces
\* were cached one after the other
C22_CycleRanBodiesTwice ==
  /\ pid = "cycle" /\ ~debug /\ ctrl.m = "returned"
  /\ Len(namespaces) = 4
  /\ module_cache[<<"a">>] = NsV(4) /\ module_cache[<<"b">>] = NsV(3)

\* the code of a module is running: the nearest activation is a module load
\* whose body has not ended
InModule == kont # <<>> /\ Activation(kont).k = "import" /\ Head(kont).k # "import"

\* the scopes in the current chain that the running module made: its own
\* environment and those of its blocks
ModuleScopes ==
  {e \in Scopes(heap, environment) : e >= Activation(kont).module_env}

\* C23, as stated: a variable read by the code of a module is found in a
\* scope of the module or not at all, and no step of that code changes a
\* scope that existed before the module's own environment was made: the
\* importing scope is neither read nor assigned.
C23_ModuleSeesNoImporterVariable ==
  /\ [][(InModule /\ ctrl.m = "eval" /\ ctrl.e.k = "Variable" /\ ctrl'.m = "value") =>
          \E e \in ModuleScopes : ctrl.e.name.lexeme \in DOMAIN heap[e].values]_vars
  /\ [][InModule =>
          \A e \in 1..Len(heap) :
            e < Activation(kont).module_env => heap'[e] = heap[e]]_vars

\* C23, what the code does: the module s has read g of the block that
\* imported it, so that s.w is 2, and has assigned it, so that g is 5 there;
\* the g of the outer scope is 1 as before
C23_ModuleReadAndAssignedImporter ==
  /\ pid = "import_scope" /\ ctrl.m = "returned" /\ ctrl.v = TRUE
  /\ out = <<<<"5",".","0">>, <<"2",".","0">>, <<"1",".","0">>>>

\* the heap h with the name bound to the value in the scope e, and with the
\* type recorded for it there if there is one
Declared(h, e, name, v, vtype) ==
  [h EXCEPT ![e] = [values |-> [n \in DOMAIN h[e].values \cup {name} |->
                                  IF n = name THEN v ELSE h[e].values[n]],
                    types |-> IF vtype = None THEN h[e].types
                              ELSE [n \in DOMAIN h[e].types \cup {name} |->
                                      IF n = name THEN vtype.lexeme ELSE h[e].types[n]],
                    enclosing |-> h[e].enclosing]]

RECURSIVE Chain(_, _)
Chain(h, e) == IF e = 0 THEN <<>> ELSE <<e>> \o Chain(h, h[e].enclosing)

\* the nearest scope of the chain that satisfies P, 0 if there is none
Nearest(ch, P(_)) ==
  IF \E i \in DOMAIN ch : P(ch[i])
  THEN ch[CHOOSE i \in DOMAIN ch : P(ch[i]) /\ \A j \in 1..(i - 1) : ~P(ch[j])]
  ELSE 0

\* C25: an assignment x = e whose right-hand side has the value v stores
\* coerce(v, T) in the nearest scope that binds x, where T is the type that
\* the nearest scope recording a type for x records, whichever scope holds
\* the binding; it stores v unchanged when no scope of the chain records a
\* type for x.  The stored value is the value of the assignment.  Nothing is
\* stored when the coercion fails or when no scope binds x.
C25_AssignCoercesToNearestType ==
  [][(ctrl.m = "value" /\ kont # <<>> /\ Head(kont).k = "assign") =>
       \E name \in {Head(kont).name.lexeme} :
         \E typed \in {Nearest(Chain(heap, environment),
                               LAMBDA e : name \in DOMAIN heap[e].types)} :
           \E bound \in {Nearest(Chain(heap, environment),
                                 LAMBDA e : name \in DOMAIN heap[e].values)} :
             \E c \in {IF typed = 0 THEN Ok(ctrl.v)
                       ELSE coerce_value(ctrl.v, heap[typed].types[name])} :
               IF c.ok /\ bound # 0
               THEN /\ heap' = [heap EXCEPT ![bound].values[name] = c.v]
                    /\ ctrl'.m = "value" /\ ctrl'.v = c.v
               ELSE /\ heap' = heap
                    /\ ctrl'.m = "raise"]_vars

\* C25: x is declared int in the outer scope and redeclared without a type
\* in the block; the assignment x = "5" in the block has stored the int 5 in
\* the block's binding, by the type recorded outside
C25_TypeOutsideBindingInside ==
  /\ pid.source = <<"v","a","r"," ","i","n","t"," ","x"," ","="," ","1",";"," ","{"," ","v","a","r"," ","x"," ","="," ","\"","a","\"",";"," ","x"," ","="," ","\"","5","\"",";"," ","p","r","i","n","t"," ","x",";"," ","}"," ","p","r","i","n","t"," ","x",";">>
  /\ ctrl.m = "value" /\ ctrl.v = IntV(5) /\ environment = 2
  /\ DOMAIN heap[2].values = {<<"x">>} /\ DOMAIN heap[2].types = {}
  /\ heap[2].values[<<"x">>] = IntV(5)
  /\ heap[1].values[<<"x">>] = IntV(1) /\ heap[1].types[<<"x">>] = <<"i","n","t">>

\* the value admits neither an integral parse nor a float parse
Unparsable(v) == ~ToInt(v).ok /\ ~ToFloat(v).ok

\* C26: coercing to int a value that admits neither an integral parse nor a
\* float parse (a non-numeric string, nil) returns the value unchanged.
C26_IntOfUnparsableUnchanged ==
  (ctrl.m = "coerced" /\ Lower(ctrl.vtype) = <<"i","n","t">> /\ Unparsable(ctrl.value))
    => (ctrl.first.ok /\ ctrl.first.v = ctrl.value)

\* C26: the string abc and nil have been coerced to int, and the coercion
\* failed
C26_IntOfTextFailed ==
  /\ ctrl.m = "coerced" /\ ctrl.vtype = <<"i","n","t">> /\ ctrl.value \in {StrV(<<"a","b","c">>), NilV}
  /\ ~ctrl.first.ok

\* the value is a string that the bool coercion recognises
Recognised(v) ==
  v.t = "str" /\ Lower(Strip(v.s)) \in {<<"t","r","u","e">>, <<"1">>, <<"y","e","s">>, <<"f","a","l","s","e">>, <<"0">>, <<"n","o">>}

\* C27: coercing to bool a value that is neither a boolean nor one of the
\* recognised strings yields the truthiness of the value as if and while
\* define it: false for nil, true for every other value, the number 0 and
\* the empty string included.
C27_BoolFallsBackToTruthiness ==
  (ctrl.m = "coerced" /\ Lower(ctrl.vtype) = <<"b","o","o","l">>
     /\ ctrl.value.t # "bool" /\ ~Recognised(ctrl.value))
    => (ctrl.first.ok /\ ctrl.first.v = BoolV(is_truthy(ctrl.value)))

\* C27: the number 0 and the empty string have been coerced to bool, and
\* the result is false
C27_ZeroAndEmptyCoercedToFalse ==
  /\ ctrl.m = "coerced" /\ ctrl.vtype = <<"b","o","o","l">>
  /\ ctrl.value \in {FloatV(0, 1), IntV(0), StrV(<<>>)}
  /\ ctrl.first.ok /\ ctrl.first.v = BoolV(FALSE)

(***************************************************************************)
(* A Compiler as it is used: made once, and compile_program called on one  *)
(* statement list after another.  ctrl is the Compiler, with the source of *)
(* the statements of the last call and the text the call returned.         *)
(***************************************************************************)
\* expressions with and without a call of the name sleep
CallSites ==
  {<<"s","l","e","e","p","(","1",")">>, <<"s","l","e","e","p","(","s","l","e","e","p","(","1",")",")">>, <<"f","(","s","l","e","e","p","(","2",")",","," ","3",")">>, <<"s","l","e","e","p","(","1",")"," ","+"," ","s","l","e","e","p","(","2",")">>, <<"t",".","f","(","-","s","l","e","e","p","(","1",")",")">>,
   <<"f","(","1",")">>, <<"(","s","l","e","e","p",")","(","1",")">>, <<"t",".","s","l","e","e","p","(","1",")">>, <<"s","l","e","e","p">>, <<"s","l","e","e","p","s","(","1",")">>, <<"s","l","e","e","p",".","f","(","1",")">>}

\* programs with the expression e in each place a statement has one
Around(e) ==
  {e \o <<";">>, <<"p","r","i","n","t"," ">> \o e \o <<";">>, <<"v","a","r"," ","y"," ","="," ">> \o e \o <<";">>, <<"y"," ","="," ">> \o e \o <<";">>,
   <<"i","f"," ","(">> \o e \o <<")"," ","{"," ","p","r","i","n","t"," ","1",";"," ","}">>, <<"i","f"," ","(","t","r","u","e",")"," ","p","r","i","n","t"," ","1",";"," ","e","l","s","e"," ">> \o e \o <<";">>,
   <<"w","h","i","l","e"," ","(">> \o e \o <<")"," ","{"," ","p","r","i","n","t"," ","1",";"," ","}">>, <<"d","e","f"," ","g","(","a",")"," ","{"," ","r","e","t","u","r","n"," ">> \o e \o <<";"," ","}">>,
   <<"i","m","p","o","r","t"," ","m",";"," ","{"," ">> \o e \o <<";"," ","}">>, <<"p","r","i","n","t"," ","1",";"," ","d","e","f"," ","g","(",")"," ","{"," ","}"," ","p","r","i","n","t"," ">> \o e \o <<".","z",";">>}

Compiled == UNION {Around(e) : e \in CallSites}

\* the statement lists compile_program is called on
StatementLists == {[source |-> s, statements |-> Compile(s).node] : s \in Compiled}

CompilerInit ==
  /\ ctrl = [m |-> "Compiler", needs_time |-> FALSE, source |-> <<>>, text |-> <<>>]
  /\ pid = "Compiler"
  /\ debug = FALSE
  /\ heap = <<Environment(0)>>
  /\ environment = 1
  /\ closures = <<>>
  /\ namespaces = <<>>
  /\ module_cache = <<>>
  /\ out = <<>>
  /\ kont = <<>>

CompileProgram ==
  /\ ctrl.m \in {"Compiler", "compile_program"}
  /\ \E l \in StatementLists :
       \E r \in {compile_program(ctrl.needs_time, l.statements)} :
         ctrl' = [m |-> "compile_program", needs_time |-> r.needs_time,
                  source |-> l.source, text |-> r.text]
  /\ UNCHANGED <<kont, environment, heap, closures, namespaces, module_cache, out, debug, pid>>

CompilerSpec == CompilerInit /\ [][CompileProgram]_vars

\* some call in the expression or statement has the bare name sleep for
\* its callee
RECURSIVE CallsSleep(_)
CallsSleep(node) ==
  CASE node.k = "Call" ->
         \/ node.callee.k = "Variable" /\ node.callee.name.lexeme = <<"s","l","e","e","p">>
         \/ CallsSleep(node.callee)
         \/ \E i \in 1..Len(node.arguments) : CallsSleep(node.arguments[i])
    [] node.k = "Binary" -> CallsSleep(node.left) \/ CallsSleep(node.right)
    [] node.k = "Grouping" -> CallsSleep(node.expression)
    [] node.k = "Unary" -> CallsSleep(node.right)
    [] node.k = "Get" -> CallsSleep(node.object)
    [] node.k = "Assign" -> CallsSleep(node.value)
    [] node.k \in {"PrintStmt", "ExpressionStmt"} -> CallsSleep(node.expression)
    [] node.k = "VarStmt" -> node.initializer # None /\ CallsSleep(node.initializer)
    [] node.k = "BlockStmt" -> \E i \in 1..Len(node.statements) : CallsSleep(node.statements[i])
    [] node.k = "IfStmt" ->
         \/ CallsSleep(node.condition) \/ CallsSleep(node.then_branch)
         \/ node.else_branch # None /\ CallsSleep(node.else_branch)
    [] node.k = "WhileStmt" -> CallsSleep(node.condition) \/ CallsSleep(node.body)
    [] node.k = "FunctionStmt" -> \E i \in 1..Len(node.body) : CallsSleep(node.body[i])
    [] node.k = "Return" -> node.value # None /\ CallsSleep(node.value)
    [] OTHER -> FALSE

\* the line of the text that starts at text[i] is import time
ImportTimeAt(text, i) ==
  Starts(text, i, <<"i","m","p","o","r","t"," ","t","i","m","e">>) /\ (Len(text) = i + 10 \/ text[i + 11] = "\n")

\* C28: the text compile_program returns begins with exactly one import
\* time line if and only if some call of the statement list compiled has
\* the bare callee name sleep, whatever the same Compiler compiled before.
C28_ImportTimeIffSleepCalled ==
  ctrl.m = "compile_program" =>
    ((ImportTimeAt(ctrl.text, 1) /\ ~ImportTimeAt(ctrl.text, 13))
       <=> \E i \in 1..Len(Program(ctrl.source)) : CallsSleep(Program(ctrl.source)[i]))

\* C28: a Compiler that has compiled a call of sleep has compiled print
\* f(1), which calls no sleep, and the text begins with import time
C28_ImportTimeWithoutSleep ==
  /\ ctrl.m = "compile_program" /\ ctrl.needs_time
  /\ ctrl.source = <<"p","r","i","n","t"," ","f","(","1",")",";">>
  /\ ctrl.text = <<"i","m","p","o","r","t"," ","t","i","m","e","\n","p","r","i","n","t","(","f","(","1",".","0",")",")">>

\* C29: for a program that assigns x = e to a declared variable, the text the
\* compiler emits evaluates e as many times as the interpreter does, once:
\* compiled and executed, the program prints what interpret prints for the
\* same statements (the effects of e happen once and x ends with the same
\* value) and fails exactly when interpret fails.
C29_CompiledAssignmentEvaluatesOnce ==
  (ctrl.m = "exit" /\ pid.mode \in {<<"r","u","n">>, <<"c","o","m","p","i","l","e">>} /\ pid.source \in Assigning)
    => InterpretedAs(interpret(Program(pid.source), <<>>, Globals))

\* C29: x = y = y + 1 was compiled to a line that evaluates y = y + 1 twice:
\* executed, it leaves 2.0 in x and in y, where interpret leaves 1.0
C29_RightHandSideEvaluatedTwice ==
  /\ pid = [source |-> <<"v","a","r"," ","y"," ","="," ","0",";"," ","v","a","r"," ","x"," ","="," ","0",";"," ","x"," ","="," ","y"," ","="," ","y"," ","+"," ","1",";"," ","p","r","i","n","t"," ","x",";"," ","p","r","i","n","t"," ","y",";">>, mode |-> <<"c","o","m","p","i","l","e">>]
  /\ ctrl.m = "exit" /\ ctrl.status = 0
  /\ python_code(Program(pid.source))
       = <<"y"," ","="," ","0",".","0","\n","x"," ","="," ","0",".","0","\n","(","y"," ","+"," ","1",".","0",")",";"," ","y"," ","="," ","(","y"," ","+"," ","1",".","0",")",";"," ","y",";"," ","x"," ","="," ","(","y"," ","+"," ","1",".","0",")",";"," ","y"," ","="," ","(","y"," ","+"," ","1",".","0",")",";"," ","y",";"," ","x","\n","p","r","i","n","t","(","x",")","\n","p","r","i","n","t","(","y",")">>
  /\ out = <<<<"2",".","0">>, <<"2",".","0">>>>
  /\ interpret(Program(pid.source), <<>>, Globals).out = <<<<"1",".","0">>, <<"1",".","0">>>>

\* C30: the namespace of a module is made of the variables the module
\* environment has when the body has run, and never changes afterwards;
\* module.name yields the value the namespace holds, the one of load time.
\* A function of the module that assigns a top-level variable of the module
\* changes the module environment, which its next call reads: with m.capla
\* being var v = 1 and def f() { v = v + 1; return v; }, the program import m;
\* print m.f(); import m; print m.v; print m.f(); prints 2.0, 1.0, 3.0.
C30_NamespaceIsSnapshot ==
  /\ [][/\ Len(namespaces') >= Len(namespaces)
        /\ \A n \in 1..Len(namespaces) : namespaces'[n] = namespaces[n]
        /\ Len(namespaces') > Len(namespaces) =>
             /\ kont # <<>> /\ Head(kont).k = "import"
             /\ namespaces' = Append(namespaces, heap[Head(kont).module_env].values)]_vars
  /\ [][(ctrl.m = "value" /\ kont # <<>> /\ Head(kont).k = "get" /\ ctrl.v.t = "ns") =>
          \E name \in {Head(kont).name.lexeme} :
            IF name \in DOMAIN namespaces[ctrl.v.n]
            THEN ctrl'.m = "value" /\ ctrl'.v = namespaces[ctrl.v.n][name]
            ELSE ctrl'.m = "raise"]_vars
  /\ []((pid = "import_module" /\ ctrl.m = "returned")
          => (Len(out) >= 3 /\ SubSeq(out, 1, 3) = <<<<"2",".","0">>, <<"1",".","0">>, <<"3",".","0">>>>))

\* C30: f has assigned v twice, so the module environment holds 3.0 for v,
\* and m.v, read after the first assignment, was printed as 1.0: the
\* namespace still holds the 1.0 of load time
C30_ModuleVariableAssignedNamespaceKept ==
  /\ pid = "import_module" /\ ctrl.m = "returned"
  /\ SubSeq(out, 1, 3) = <<<<"2",".","0">>, <<"1",".","0">>, <<"3",".","0">>>>
  /\ namespaces[1][<<"v">>] = FloatV(1, 1)
  /\ heap[1].values[<<"m">>] = NsV(1)
  /\ \E e \in 2..Len(heap) : heap[e].enclosing = 1 /\ <<"v">> \in DOMAIN heap[e].values
                             /\ heap[e].values[<<"v">>] = FloatV(3, 1)

====
